---- MODULE Spec2Model ----
(***************************************************************************)
(* A model of the obd2_tool driver: the ISO-TP reassembler and the UDS     *)
(* response decoder of src/driver/isotp.py, and the ELM327 controller of   *)
(* src/driver/elm327.py on the scripted transport of                       *)
(* src/driver/mock_serial.py.                                              *)
(*                                                                         *)
(* Bytes are the integers 0..255, byte strings are sequences of bytes,     *)
(* text is a sequence of one-character strings.  A Python exception is     *)
(* the name of its class; "None" in a raised field means a normal return.  *)
(***************************************************************************)
EXTENDS Integers, Sequences, FiniteSets, TLC

VARIABLES
    message,          \* the IsoTpMessage under assembly
    last,             \* the last call made on it, and how it ended
    frame_data_list,  \* the argument of parse_isotp_frames
    parsed,           \* what parse_isotp_frames returned or raised
    uds_payload,      \* the argument of parse_uds_response
    response,         \* what parse_uds_response returned or raised
    elm,              \* the ELM327 controller
    transport,        \* the connection it was constructed with or opened
    wire,             \* the writes and reads on the transport, and by whom
    main,             \* the caller thread: the call in progress
    workers,          \* the threads running _tester_present_loop
    outcome,          \* the last call that returned, and how
    session,          \* Fresh, Ready or Closed
    ble,              \* the BLEConnection
    gatt,             \* the adapter's GATT server, as the BleakClient sees it
    loops,            \* the threads running _run_event_loop, and their loops
    caller,           \* the thread calling the BLEConnection
    io,               \* the last call on a BLEConnection or MockConnection that ended
    rx,               \* the bytes notified so far, and those that left the buffer
    kia,              \* the KiaNiroEV reader: the _read_bms_data in progress
    publisher         \* the SOCPublisher and its run loop

isoVars == <<message, last>>
codecVars == <<frame_data_list, parsed, uds_payload, response>>
elmVars == <<elm, transport, wire, main, workers, outcome, session>>
bleVars == <<ble, gatt, loops, caller, io, rx>>
appVars == <<kia, publisher>>
vars ==
    <<message, last, frame_data_list, parsed, uds_payload, response,
      elm, transport, wire, main, workers, outcome, session,
      ble, gatt, loops, caller, io, rx, kia, publisher>>

(***************************************************************************)
(* Bounds of the model.                                                    *)
(***************************************************************************)
\* the payload length beyond which the model offers no further frame
MaxPayload == 3
\* the longest enumerated list of frame strings
MaxFrames == 2
\* the longest enumerated UDS payload
MaxUdsLen == 3
\* the threads enable_cyclic_tester_present may start in a run
MaxWorkers == 2

\* the event-loop threads a BLEConnection may start
MaxLoops == 2
\* the most bytes of one notification
MaxChunk == 2
\* the lines written after construction beyond which no further call of
\* send_message and no further tick is taken
MaxWrites == 2

\* the calls of _read_bms_data made on one KiaNiroEV
MaxReads == 1

\* the readings the publisher attempts in one run
MaxPolls == 4

\* Python's None where an int is expected
None == -1

Min(a, b) == IF a < b THEN a ELSE b

\* s[i:] of Python, i >= 0
From(s, i) == SubSeq(s, i + 1, Len(s))

\* s[i:j] of Python, 0 <= i <= j
Slice(s, i, j) == SubSeq(s, i + 1, Min(j, Len(s)))

(***************************************************************************)
(* IsoTpFrame                                                              *)
(***************************************************************************)
SINGLE_FRAME == 0
FIRST_FRAME == 1
CONSECUTIVE_FRAME == 2
FLOW_CONTROL_FRAME == 3

\* (frame_bytes[0] & 0xF0) >> 4
HighNibble(b) == b \div 16

\* frame_bytes[0] & 0x0F
LowNibble(b) == b % 16

\* ((frame_bytes[0] & 0x0F) << 8) | frame_bytes[1]
FirstFrameLength(b0, b1) == LowNibble(b0) * 256 + b1

NoFrame ==
    [frame_type |-> None, data |-> <<>>, sequence_number |-> None, length |-> None]

\* IsoTpFrame(frame_bytes): the frame, or the exception the constructor raises.
\* A First frame of one byte reads frame_bytes[1] out of range.
IsoTpFrame(frame_bytes) ==
    IF Len(frame_bytes) = 0
    THEN [raised |-> "ValueError", frame |-> NoFrame]
    ELSE LET b0 == frame_bytes[1]
             t == HighNibble(b0)
         IN  IF t = SINGLE_FRAME
             THEN [raised |-> "None",
                   frame |-> [frame_type |-> t,
                              data |-> Slice(frame_bytes, 1, 1 + LowNibble(b0)),
                              sequence_number |-> None,
                              length |-> LowNibble(b0)]]
             ELSE IF t = FIRST_FRAME
             THEN IF Len(frame_bytes) < 2
                  THEN [raised |-> "IndexError", frame |-> NoFrame]
                  ELSE [raised |-> "None",
                        frame |-> [frame_type |-> t,
                                   data |-> From(frame_bytes, 2),
                                   sequence_number |-> None,
                                   length |-> FirstFrameLength(b0, frame_bytes[2])]]
             ELSE IF t = CONSECUTIVE_FRAME
             THEN [raised |-> "None",
                   frame |-> [frame_type |-> t,
                              data |-> From(frame_bytes, 1),
                              sequence_number |-> LowNibble(b0),
                              length |-> None]]
             ELSE [raised |-> "None",
                   frame |-> [frame_type |-> t,
                              data |-> <<>>,
                              sequence_number |-> None,
                              length |-> None]]

(***************************************************************************)
(* IsoTpMessage                                                            *)
(***************************************************************************)
\* IsoTpMessage()
NewMessage ==
    [payload |-> <<>>, expected_length |-> None, is_complete |-> FALSE,
     next_sequence |-> 1]

\* NextSequence without the wrap to 0 after 15
NextSequenceNoWrap(n) == n + 1

\* the sequence number expected after an accepted Consecutive frame
NextSequence(n) == (n + 1) % 16

\* the Single branch of add_frame
AddSingle(m, frame) ==
    [raised |-> "None",
     message |-> [m EXCEPT !.payload = frame.data,
                           !.expected_length = frame.length,
                           !.is_complete = TRUE]]

\* the First branch of add_frame
AddFirst(m, frame) ==
    IF Len(m.payload) > 0
    THEN [raised |-> "ValueError", message |-> m]
    ELSE LET p == m.payload \o frame.data
         IN  [raised |-> "None",
              message |-> [m EXCEPT !.payload = p,
                                    !.expected_length = frame.length,
                                    !.next_sequence = 1,
                                    !.is_complete =
                                        (frame.length # None /\ Len(p) >= frame.length)]]

\* AddConsecutive without the trim to expected_length
AddConsecutiveNoTrim(m, frame) ==
    IF m.expected_length = None
    THEN [raised |-> "ValueError", message |-> m]
    ELSE IF frame.sequence_number # m.next_sequence
    THEN [raised |-> "ValueError", message |-> m]
    ELSE LET p == m.payload \o frame.data
         IN  [raised |-> "None",
              message |-> [m EXCEPT !.payload = p,
                                    !.next_sequence = (m.next_sequence + 1) % 16,
                                    !.is_complete = Len(p) >= m.expected_length]]

\* a Consecutive branch that takes the data of a frame before it looks at the
\* frame's sequence number
AddConsecutiveAppendsFirst(m, frame) ==
    IF m.expected_length = None
    THEN [raised |-> "ValueError", message |-> m]
    ELSE LET p == m.payload \o frame.data
             done == Len(p) >= m.expected_length
         IN  IF frame.sequence_number # m.next_sequence
             THEN [raised |-> "ValueError", message |-> [m EXCEPT !.payload = p]]
             ELSE [raised |-> "None",
                   message |-> [m EXCEPT !.payload =
                                             IF done THEN Slice(p, 0, m.expected_length) ELSE p,
                                         !.next_sequence = NextSequence(m.next_sequence),
                                         !.is_complete = done]]

\* the Consecutive branch of add_frame
AddConsecutive(m, frame) ==
    IF m.expected_length = None
    THEN [raised |-> "ValueError", message |-> m]
    ELSE IF frame.sequence_number # m.next_sequence
    THEN [raised |-> "ValueError", message |-> m]
    ELSE LET p == m.payload \o frame.data
             done == Len(p) >= m.expected_length
         IN  [raised |-> "None",
              message |-> [m EXCEPT !.payload =
                                        IF done THEN Slice(p, 0, m.expected_length) ELSE p,
                                    !.next_sequence = NextSequence(m.next_sequence),
                                    !.is_complete = done]]

\* the branches of add_frame, by frame type; a frame of another type is ignored
AddByType(m, frame) ==
    IF frame.frame_type = SINGLE_FRAME THEN AddSingle(m, frame)
    ELSE IF frame.frame_type = FIRST_FRAME THEN AddFirst(m, frame)
    ELSE IF frame.frame_type = CONSECUTIVE_FRAME THEN AddConsecutive(m, frame)
    ELSE [raised |-> "None", message |-> m]

\* AddFrame without the check that the message is already complete
AddFrameNoCompleteCheck(m, frame) == AddByType(m, frame)

\* add_frame that looks at is_complete for Consecutive frames only
AddFrameCompleteForConsecutive(m, frame) ==
    IF m.is_complete /\ frame.frame_type = CONSECUTIVE_FRAME
    THEN [raised |-> "ValueError", message |-> m]
    ELSE AddByType(m, frame)

\* IsoTpMessage.add_frame: the message after the call and the exception raised
AddFrame(m, frame) ==
    IF m.is_complete
    THEN [raised |-> "ValueError", message |-> m]
    ELSE AddByType(m, frame)

\* GetPayload without the check that the message is complete
GetPayloadUnchecked(m) == [raised |-> "None", value |-> m.payload]

\* IsoTpMessage.get_payload
GetPayload(m) ==
    IF ~m.is_complete
    THEN [raised |-> "ValueError", value |-> <<>>]
    ELSE [raised |-> "None", value |-> m.payload]

(***************************************************************************)
(* bytearray.fromhex                                                       *)
(***************************************************************************)
\* the characters str.strip() removes and bytearray.fromhex skips
Whitespace == {" ", "\r", "\n", "\t"}

HexDigits ==
    <<"0", "1", "2", "3", "4", "5", "6", "7", "8", "9", "A", "B", "C", "D", "E", "F">>

LowerHexDigits == <<"a", "b", "c", "d", "e", "f">>

IsHexChar(c) ==
    \/ \E k \in 1..16 : HexDigits[k] = c
    \/ \E k \in 1..6 : LowerHexDigits[k] = c

\* the value of a hexadecimal digit, either case
HexValue(c) ==
    IF \E k \in 1..16 : HexDigits[k] = c
    THEN (CHOOSE k \in 1..16 : HexDigits[k] = c) - 1
    ELSE (CHOOSE k \in 1..6 : LowerHexDigits[k] = c) + 9

\* the scan of bytearray.fromhex from position i: whitespace is skipped
\* between bytes, a byte is two hexadecimal digits side by side
RECURSIVE FromHexAt(_, _, _)
FromHexAt(s, i, acc) ==
    IF i > Len(s) THEN [raised |-> "None", value |-> acc]
    ELSE IF s[i] \in Whitespace THEN FromHexAt(s, i + 1, acc)
    ELSE IF ~IsHexChar(s[i]) THEN [raised |-> "ValueError", value |-> <<>>]
    ELSE IF i + 1 > Len(s) \/ ~IsHexChar(s[i + 1])
    THEN [raised |-> "ValueError", value |-> <<>>]
    ELSE FromHexAt(s, i + 2, Append(acc, 16 * HexValue(s[i]) + HexValue(s[i + 1])))

\* bytearray.fromhex(s)
FromHex(s) == FromHexAt(s, 1, <<>>)

(***************************************************************************)
(* parse_isotp_frames                                                      *)
(***************************************************************************)
\* the loop of parse_isotp_frames from frame i on, then get_payload
RECURSIVE ParseLoop(_, _, _)
ParseLoop(m, list, i) ==
    IF i > Len(list) THEN GetPayload(m)
    ELSE LET frame_bytes == FromHex(list[i])
             made == IsoTpFrame(frame_bytes.value)
             added == AddFrame(m, made.frame)
         IN  IF frame_bytes.raised # "None"
             THEN [raised |-> frame_bytes.raised, value |-> <<>>]
             ELSE IF made.raised # "None"
             THEN [raised |-> made.raised, value |-> <<>>]
             ELSE IF added.raised # "None"
             THEN [raised |-> added.raised, value |-> <<>>]
             ELSE ParseLoop(added.message, list, i + 1)

\* parse_isotp_frames(frame_data_list)
ParseIsoTpFrames(list) == ParseLoop(NewMessage, list, 1)

(***************************************************************************)
(* parse_uds_response                                                      *)
(***************************************************************************)
\* ServicesWithDataId with 0x6F left out
ServicesWithDataIdShort == {34, 98, 46, 110, 47}

\* services_with_data_id: 0x22, 0x62, 0x2E, 0x6E, 0x2F, 0x6F
ServicesWithDataId == {34, 98, 46, 110, 47, 111}

\* DataIdentifier with the two bytes taken in the other order
DataIdentifierLittleEndian(hi, lo) == lo * 256 + hi

\* (payload[1] << 8) | payload[2]
DataIdentifier(hi, lo) == hi * 256 + lo

NoResponse == [service_id |-> None, data_identifier |-> None, payload |-> <<>>]

\* ParseUdsResponse asking for a byte of data after the data identifier
ParseUdsResponseStrict(payload) ==
    IF Len(payload) < 1
    THEN [raised |-> "ValueError", value |-> NoResponse]
    ELSE IF payload[1] \in ServicesWithDataId
    THEN IF Len(payload) < 4
         THEN [raised |-> "ValueError", value |-> NoResponse]
         ELSE [raised |-> "None",
               value |-> [service_id |-> payload[1],
                          data_identifier |-> DataIdentifier(payload[2], payload[3]),
                          payload |-> From(payload, 3)]]
    ELSE [raised |-> "None",
          value |-> [service_id |-> payload[1],
                     data_identifier |-> None,
                     payload |-> From(payload, 1)]]

\* parse_uds_response(payload): the IsoTpResponse, or the exception raised
ParseUdsResponse(payload) ==
    IF Len(payload) < 1
    THEN [raised |-> "ValueError", value |-> NoResponse]
    ELSE LET service_id == payload[1]
         IN  IF service_id \in ServicesWithDataId
             THEN IF Len(payload) < 3
                  THEN [raised |-> "ValueError", value |-> NoResponse]
                  ELSE [raised |-> "None",
                        value |-> [service_id |-> service_id,
                                   data_identifier |->
                                       DataIdentifier(payload[2], payload[3]),
                                   payload |-> From(payload, 3)]]
             ELSE [raised |-> "None",
                   value |-> [service_id |-> service_id,
                              data_identifier |-> None,
                              payload |-> From(payload, 1)]]

(***************************************************************************)
(* Text, as the controller handles it (str methods of Python).             *)
(***************************************************************************)
\* s.strip()
Strip(s) ==
    LET kept == {i \in 1..Len(s) : s[i] \notin Whitespace}
        first == CHOOSE i \in kept : \A j \in kept : i <= j
        final == CHOOSE i \in kept : \A j \in kept : j <= i
    IN  IF kept = {} THEN <<>> ELSE SubSeq(s, first, final)

\* s.find(k): the offset of the leftmost occurrence of k in s, or -1
Find(s, k) ==
    LET found == {i \in 0..(Len(s) - Len(k)) : SubSeq(s, i + 1, i + Len(k)) = k}
    IN  IF found = {} THEN -1 ELSE CHOOSE i \in found : \A j \in found : i <= j

\* k in s
Contains(s, k) == Find(s, k) # -1

\* s.replace(old, new), old not empty: the occurrences are taken from the
\* left and do not overlap
RECURSIVE Replace(_, _, _)
Replace(s, old, new) ==
    LET at == Find(s, old)
    IN  IF at = -1 THEN s
        ELSE SubSeq(s, 1, at) \o new \o Replace(From(s, at + Len(old)), old, new)

\* s.replace(c, '') for a single character c
Remove(s, c) == SelectSeq(s, LAMBDA x : x # c)

\* s.split(c) for a single character c: the pieces between its occurrences
RECURSIVE Split(_, _)
Split(s, c) ==
    LET at == Find(s, <<c>>)
    IN  IF at = -1 THEN <<s>>
        ELSE <<SubSeq(s, 1, at)>> \o Split(From(s, at + 1), c)

\* the digits of int(x, 16) after sign and prefix: hexadecimal digits with
\* single underscores between them
DigitsWithUnderscores(u) ==
    /\ Len(u) > 0
    /\ IsHexChar(u[1]) /\ IsHexChar(u[Len(u)])
    /\ \A i \in 1..Len(u) : IsHexChar(u[i]) \/ u[i] = "_"
    /\ \A i \in 1..(Len(u) - 1) : ~(u[i] = "_" /\ u[i + 1] = "_")

\* int(x, 16) returns rather than raises ValueError: blanks around, a sign,
\* a prefix 0x or 0X (an underscore may follow it), then the digits
Int16Valid(x) ==
    LET t == Strip(x)
        u == IF Len(t) > 0 /\ t[1] \in {"+", "-"} THEN Tail(t) ELSE t
        prefixed == Len(u) >= 2 /\ u[1] = "0" /\ u[2] \in {"x", "X"}
        v == From(u, 2)
        w == IF Len(v) > 0 /\ v[1] = "_" THEN Tail(v) ELSE v
    IN  \/ DigitsWithUnderscores(u)
        \/ prefixed /\ DigitsWithUnderscores(w)

\* the upper-case hexadecimal digits of n, most significant first
RECURSIVE HexOf(_)
HexOf(n) ==
    IF n < 16 THEN <<HexDigits[n + 1]>>
    ELSE Append(HexOf(n \div 16), HexDigits[(n % 16) + 1])

RECURSIVE ZeroPad(_, _)
ZeroPad(s, width) == IF Len(s) >= width THEN s ELSE ZeroPad(<<"0">> \o s, width)

\* f"{n:0{width}X}" for n >= 0
FormatHex(n, width) == ZeroPad(HexOf(n), width)

\* a byte outside ASCII on the line
NonAscii == "\\x80"

\* data.decode('ascii', errors='ignore')
DecodeAsciiIgnore(data) == SelectSeq(data, LAMBDA c : c # NonAscii)

(***************************************************************************)
(* MockConnection: the scripted transport.                                 *)
(***************************************************************************)
\* the reply recorded for 220101
Reply220101 ==
    <<"7", "E", "C", " ", "1", "0", " ", "3", "E", " ", "6", "2", " ", "0",
      "1", " ", "0", "1", " ", "E", "F", " ", "F", "B", " ", "E", "7", " ",
      "\r", "7", "E", "C", " ", "2", "1", " ", "E", "D", " ", "6", "9", " ",
      "0", "0", " ", "0", "0", " ", "0", "0", " ", "0", "0", " ", "0", "0",
      " ", "\r", "7", "E", "C", " ", "2", "2", " ", "0", "0", " ", "0", "0",
      " ", "0", "E", " ", "2", "6", " ", "0", "D", " ", "0", "C", " ", "0",
      "D", " ", "\r", "7", "E", "C", " ", "2", "3", " ", "0", "D", " ", "0",
      "D", " ", "0", "0", " ", "0", "0", " ", "0", "0", " ", "3", "4", " ",
      "B", "C", " ", "\r", "7", "E", "C", " ", "2", "4", " ", "1", "8", " ",
      "B", "C", " ", "5", "6", " ", "0", "0", " ", "0", "0", " ", "7", "C",
      " ", "0", "0", " ", "\r", "7", "E", "C", " ", "2", "5", " ", "0", "2",
      " ", "D", "E", " ", "8", "0", " ", "0", "0", " ", "0", "2", " ", "C",
      "9", " ", "5", "5", " ", "\r", "7", "E", "C", " ", "2", "6", " ", "0",
      "0", " ", "0", "1", " ", "1", "9", " ", "A", "F", " ", "0", "0", " ",
      "0", "1", " ", "0", "7", " ", "\r", "7", "E", "C", " ", "2", "7", " ",
      "C", "3", " ", "0", "0", " ", "E", "C", " ", "6", "5", " ", "6", "F",
      " ", "0", "0", " ", "0", "0", " ", "\r", "7", "E", "C", " ", "2", "8",
      " ", "0", "3", " ", "0", "0", " ", "0", "0", " ", "0", "0", " ", "0",
      "0", " ", "0", "B", " ", "B", "8", " ", "\r", "\r", ">">>

\* the reply recorded for 220102
Reply220102 ==
    <<"S", "E", "A", "R", "C", "H", "I", "N", "G", ".", ".", ".", "\r", "7",
      "E", "C", " ", "1", "0", " ", "2", "7", " ", "6", "2", " ", "0", "1",
      " ", "0", "2", " ", "F", "F", " ", "F", "F", " ", "F", "F", " ", "\r",
      "7", "E", "C", " ", "2", "1", " ", "F", "F", " ", "B", "C", " ", "B",
      "C", " ", "B", "C", " ", "B", "C", " ", "B", "C", " ", "B", "C", " ",
      "B", "C", " ", "\r", "7", "E", "C", " ", "2", "2", " ", "B", "C", " ",
      "B", "C", " ", "B", "C", " ", "B", "C", " ", "B", "C", " ", "B", "C",
      " ", "B", "C", " ", "B", "C", " ", "\r", "7", "E", "C", " ", "2", "3",
      " ", "B", "C", " ", "B", "C", " ", "B", "C", " ", "B", "C", " ", "B",
      "C", " ", "B", "C", " ", "B", "C", " ", "B", "C", " ", "\r", "7", "E",
      "C", " ", "2", "4", " ", "B", "C", " ", "B", "C", " ", "B", "C", " ",
      "B", "C", " ", "B", "C", " ", "B", "C", " ", "B", "C", " ", "B", "C",
      " ", "\r", "7", "E", "C", " ", "2", "5", " ", "B", "C", " ", "B", "C",
      " ", "B", "C", " ", "B", "C", " ", "B", "C", " ", "B", "C", " ", "A",
      "A", " ", "A", "A", " ", "\r", "\r", ">">>

\* the reply recorded for 220105
Reply220105 ==
    <<"7", "E", "C", " ", "1", "0", " ", "2", "E", " ", "6", "2", " ", "0",
      "1", " ", "0", "5", " ", "F", "F", " ", "F", "F", " ", "0", "B", " ",
      "7", "4", " ", "\r", "7", "E", "C", " ", "2", "1", " ", "0", "F", " ",
      "0", "1", " ", "2", "C", " ", "0", "1", " ", "0", "1", " ", "2", "C",
      " ", "0", "B", " ", "\r", "7", "E", "C", " ", "2", "2", " ", "0", "B",
      " ", "0", "C", " ", "0", "B", " ", "0", "C", " ", "0", "C", " ", "0",
      "C", " ", "3", "E", " ", "\r", "7", "E", "C", " ", "2", "3", " ", "9",
      "0", " ", "4", "3", " ", "8", "2", " ", "0", "0", " ", "0", "0", " ",
      "6", "4", " ", "0", "E", " ", "\r", "7", "E", "C", " ", "2", "4", " ",
      "0", "0", " ", "0", "3", " ", "E", "8", " ", "2", "1", " ", "3", "9",
      " ", "A", "0", " ", "0", "0", " ", "\r", "7", "E", "C", " ", "2", "5",
      " ", "6", "7", " ", "0", "0", " ", "0", "0", " ", "0", "0", " ", "0",
      "0", " ", "0", "0", " ", "0", "0", " ", "\r", "7", "E", "C", " ", "2",
      "6", " ", "0", "0", " ", "0", "C", " ", "0", "C", " ", "0", "D", " ",
      "0", "D", " ", "A", "A", " ", "A", "A", " ", "\r", "\r", ">">>

\* 'OK\r\r>'
ReplyOk == <<"O", "K", "\r", "\r", ">">>

\* '?\r\r>', the reply to a command that is not scripted
ReplyUnknown == <<"?", "\r", "\r", ">">>

\* self.responses: the commands that are scripted
ScriptedCommands ==
    {<<"A", "T", "Z">>,
     <<"A", "T", "E", "0">>,
     <<"A", "T", "L", "0">>,
     <<"A", "T", "S", "0">>,
     <<"A", "T", "H", "1">>,
     <<"A", "T", "S", "P", "0">>,
     <<"A", "T", "S", "H", "7", "E", "4">>,
     <<"2", "2", "0", "1", "0", "1">>,
     <<"2", "2", "0", "1", "0", "2">>,
     <<"2", "2", "0", "1", "0", "5">>}

\* self.responses, as MockConnection.__init__ scripts it
Responses ==
    [command \in ScriptedCommands |->
        CASE command = <<"A", "T", "Z">> ->
                 <<"\r", "\r", "E", "L", "M", "3", "2", "7", " ", "v", "1", ".", "5",
                   "\r", "\r", ">">>
          [] command = <<"A", "T", "E", "0">> ->
                 <<"A", "T", "E", "0", "\r", "O", "K", "\r", "\r", ">">>
          [] command = <<"2", "2", "0", "1", "0", "1">> -> Reply220101
          [] command = <<"2", "2", "0", "1", "0", "2">> -> Reply220102
          [] command = <<"2", "2", "0", "1", "0", "5">> -> Reply220105
          [] OTHER -> ReplyOk]

\* tests/test_elm327.py, test_invalid_response_handling:
\* mock.responses['999999'] = 'INVALID_HEX\r\r>'
InvalidHexScript ==
    [command \in ScriptedCommands \cup {<<"9", "9", "9", "9", "9", "9">>} |->
        IF command \in ScriptedCommands THEN Responses[command]
        ELSE <<"I", "N", "V", "A", "L", "I", "D", "_", "H", "E", "X",
               "\r", "\r", ">">>]

\* the scripts a transport may hold, by name; the field `responses` of a
\* transport is the name of its script
Scripts == [recorded |-> Responses, invalid_hex |-> InvalidHexScript]

\* the reply MockConnection.write queues for a command: the one a test has
\* set for it (overrides), else the one of the script, else '?\r\r>'
MockReply(t, command) ==
    IF command \in DOMAIN t.overrides THEN t.overrides[command]
    ELSE IF command \in DOMAIN Scripts[t.responses]
    THEN Scripts[t.responses][command]
    ELSE ReplyUnknown

\* a write that sets the count of its command to 1 whatever it was
MockWriteCountsOnce(t, data) ==
    LET command == Strip(data)
    IN  [t EXCEPT !.call_count =
                      [c \in DOMAIN t.call_count \cup {command} |->
                          IF c = command THEN 1 ELSE t.call_count[c]],
                  !.read_buffer = @ \o MockReply(t, command)]

\* MockConnection.write(data): the command is counted and its reply queued
MockWrite(t, data) ==
    LET command == Strip(data)
        count == IF command \in DOMAIN t.call_count THEN t.call_count[command] ELSE 0
    IN  [t EXCEPT !.call_count =
                      [c \in DOMAIN t.call_count \cup {command} |->
                          IF c = command THEN count + 1 ELSE t.call_count[c]],
                  !.read_buffer = @ \o MockReply(t, command)]

\* MockConnection.read(size): what is returned, and the transport afterwards
MockRead(t, size) ==
    IF Len(t.read_buffer) <= size
    THEN [result |-> t.read_buffer, transport |-> [t EXCEPT !.read_buffer = <<>>]]
    ELSE [result |-> Slice(t.read_buffer, 0, size),
          transport |-> [t EXCEPT !.read_buffer = From(t.read_buffer, size)]]

\* MockConnection.close()
MockClose(t) == [t EXCEPT !.is_open = FALSE, !.read_buffer = <<>>]

(***************************************************************************)
(* ELM327: the controller.                                                 *)
(***************************************************************************)
\* the size of one read of _send_command
READ_SIZE == 1024

\* the commands of _connect, in the order it sends them
InitCommands ==
    <<<<"A", "T", "Z">>,
      <<"A", "T", "E", "0">>,
      <<"A", "T", "L", "0">>,
      <<"A", "T", "S", "0">>,
      <<"A", "T", "H", "1">>,
      <<"A", "T", "S", "P", "0">>>>

\* error_keywords of send_message
ErrorKeywords ==
    {<<"N", "O", " ", "D", "A", "T", "A">>,
     <<"E", "R", "R", "O", "R">>,
     <<"?">>,
     <<"S", "T", "O", "P", "P", "E", "D">>,
     <<"U", "N", "A", "B", "L", "E", " ", "T", "O", " ", "C", "O", "N", "N", "E", "C", "T">>,
     <<"B", "U", "S", " ", "I", "N", "I", "T">>,
     <<"C", "A", "N", " ", "E", "R", "R", "O", "R">>,
     <<"B", "U", "F", "F", "E", "R", " ", "F", "U", "L", "L">>,
     <<"<", "D", "A", "T", "A", " ", "E", "R", "R", "O", "R">>}

\* informational_messages of _parse_response, in the order they are removed
InformationalMessages ==
    <<<<"S", "E", "A", "R", "C", "H", "I", "N", "G", ".", ".", ".">>,
      <<"B", "U", "S", "I", "N", "I", "T", ":">>,
      <<"B", "U", "S", "I", "N", "I", "T", ".", ".", ".">>,
      <<"O", "K">>>>

\* '3E00', the Tester Present line
TesterPresent == <<"3", "E", "0", "0">>
\* (command + '\r').encode('ascii')
CommandLine(command) == Append(command, "\r")

\* header = f"ATSH{can_id:03X}"
HeaderCommand(can_id) == <<"A", "T", "S", "H">> \o FormatHex(can_id, 3)

\* message = f"{pid:02X}", or f"01{pid:02X}" when there is no can_id
MessageCommand(can_id, pid) ==
    IF can_id # None THEN FormatHex(pid, 2)
    ELSE <<"0", "1">> \o FormatHex(pid, 2)

\* a _parse_response that leaves the informational messages in the text
RemoveInformationalNone(text, i) == text

\* the informational messages from the i-th on removed from the response
RECURSIVE RemoveInformational(_, _)
RemoveInformational(text, i) ==
    IF i > Len(InformationalMessages) THEN text
    ELSE RemoveInformational(Replace(text, InformationalMessages[i], <<>>),
                             i + 1)

\* lines = response.replace('\r\r', '\r').replace('\n\n', '\n').split('\r'),
\* and response.split('\n') when that is a single line
ResponseLines(text) ==
    LET lines == Split(Replace(Replace(text, <<"\r", "\r">>, <<"\r">>),
                               <<"\n", "\n">>, <<"\n">>), "\r")
    IN  IF Len(lines) = 1 THEN Split(text, "\n") ELSE lines

\* the body of the loop over the lines: the frame data the line adds, if any
FrameDataOf(line) ==
    LET stripped == Strip(line)
        line_no_spaces == Remove(stripped, " ")
        frame_data == From(line_no_spaces, 3)
    IN  IF Len(stripped) = 0 THEN <<>>
        ELSE IF Len(line_no_spaces) >= 3
                /\ Int16Valid(SubSeq(line_no_spaces, 1, 3))
                /\ Len(frame_data) >= 2
        THEN <<frame_data>>
        ELSE <<>>

\* frame_data_list after the loop over lines[i..]
RECURSIVE CollectFrames(_, _)
CollectFrames(lines, i) ==
    IF i > Len(lines) THEN <<>>
    ELSE FrameDataOf(lines[i]) \o CollectFrames(lines, i + 1)

\* ELM327._parse_response(response): the payload, or the exception raised
ParseResponseOf(text) ==
    LET cleaned == RemoveInformational(Remove(text, ">"), 1)
        frames == CollectFrames(ResponseLines(cleaned), 1)
        response_clean ==
            Remove(Remove(Remove(cleaned, "\r"), "\n"), " ")
        whole == FromHex(response_clean)
        payload == ParseIsoTpFrames(frames)
    IN  IF Len(frames) = 0
        THEN IF whole.raised = "ValueError"
             THEN [raised |-> "InvalidResponseException", value |-> <<>>]
             ELSE whole
        ELSE IF payload.raised = "ValueError"
        THEN [raised |-> "InvalidResponseException", value |-> <<>>]
        ELSE payload

\* the part of send_message after the reply is read: the scan for
\* error_keywords, _parse_response, parse_uds_response
DecodeReply(response_str) ==
    LET raw_payload == ParseResponseOf(response_str)
    IN  IF \E keyword \in ErrorKeywords : Contains(response_str, keyword)
        THEN [raised |-> "NoResponseException", value |-> NoResponse]
        ELSE IF raw_payload.raised # "None"
        THEN [raised |-> raw_payload.raised, value |-> NoResponse]
        ELSE ParseUdsResponse(raw_payload.value)

(***************************************************************************)
(* The inputs of the model.                                                *)
(***************************************************************************)
\* the data fields the enumerated frames carry (0x62, 0xAA)
DataFields == {<<>>, <<98>>, <<170, 98>>}

\* the raw frames offered to add_frame: no bytes at all; Single frames
\* 0x00..0x03; First frames 0x10 LL, the lone byte 0x10 and 0x11 0x00
\* (length 256); Consecutive frames 0x20..0x2F; a flow control frame 0x30
\* and a frame of no known type 0x40
SinglePci == 0..3
ConsecutivePci == 32..47

FrameBytes ==
    {<<>>, <<16>>, <<17, 0>>, <<48, 98>>, <<64, 98>>}
    \cup {<<b>> \o d : b \in SinglePci \cup ConsecutivePci, d \in DataFields}
    \cup {<<16, l>> \o d : l \in 0..MaxPayload, d \in DataFields}

\* the sequences over S of length n
RECURSIVE SeqsOfLen(_, _)
SeqsOfLen(S, n) ==
    IF n = 0 THEN {<<>>}
    ELSE {<<x>> \o t : x \in S, t \in SeqsOfLen(S, n - 1)}

\* the sequences over S of length at most n
SeqsUpTo(S, n) == UNION {SeqsOfLen(S, k) : k \in 0..n}

\* bytes written as upper-case hexadecimal text
RECURSIVE Hex(_)
Hex(bytes) ==
    IF Len(bytes) = 0 THEN <<>>
    ELSE <<HexDigits[(bytes[1] \div 16) + 1], HexDigits[(bytes[1] % 16) + 1]>>
         \o Hex(Tail(bytes))

\* the frame strings of the enumerated lists: Single frames (length 0, exact,
\* short of its length, padded), First frames (short of its length, beyond its
\* length, its first byte only), Consecutive frames, a flow control frame, and
\* text that is no frame (empty, an odd digit, no hexadecimal digit, a blank
\* inside a byte); "21 aa" is frame 21AA in lower case, bytes apart
FrameStrings ==
    {Hex(<<0>>), Hex(<<1, 98>>), Hex(<<2, 98>>), Hex(<<1, 98, 170>>),
     Hex(<<16, 3, 98>>), Hex(<<16, 1, 98, 170>>), Hex(<<16>>),
     Hex(<<33, 170>>), Hex(<<33, 170, 98>>), Hex(<<33, 170, 98, 170>>),
     Hex(<<34, 98, 170>>), Hex(<<34>>),
     Hex(<<48, 0, 0>>),
     <<>>, <<"0">>, <<"0", "G">>, <<"2", " ", "1">>,
     <<"2", "1", " ", "a", "a">>}

\* tests/test_isotp.py, test_parse_single_frame
SingleFromTest ==
    <<<<"0", "5", "6", "2", "0", "1", "0", "2", "0", "5", "F", "F">>>>

\* tests/test_isotp.py, test_parse_multi_frame_from_trace
TraceFromTest ==
    <<<<"1", "0", "2", "7", "6", "2", "0", "1", "0", "2", "F", "F", "F", "F", "F", "F">>,
      <<"2", "1", "F", "F", "B", "C", "B", "C", "B", "C", "B", "C", "B", "C", "B", "C">>,
      <<"2", "2", "B", "C", "B", "C", "B", "C", "B", "C", "B", "C", "B", "C", "B", "C">>,
      <<"2", "3", "B", "C", "B", "C", "B", "C", "B", "C", "B", "C", "B", "C", "B", "C">>,
      <<"2", "4", "B", "C", "B", "C", "B", "C", "B", "C", "B", "C", "B", "C", "B", "C">>,
      <<"2", "5", "B", "C", "B", "C", "B", "C", "B", "C", "B", "C", "A", "A", "A", "A">>>>

\* the frames of test_sequence_validation, as text
SequenceViolation ==
    <<<<"1", "0", "1", "0", "6", "2", "0", "1", "0", "2", "F", "F", "F", "F", "F", "F">>,
      <<"2", "2", "B", "C", "B", "C", "B", "C", "B", "C", "B", "C", "B", "C", "B", "C">>>>

\* a message of 20 bytes in 18 frames: the sequence numbers run 1..15, 0, 1,
\* and the last frame carries a byte of padding
WrapList ==
    <<<<"1", "0", "1", "4", "6", "2", "0", "1", "0", "2">>,
      <<"2", "1", "0", "1">>,
      <<"2", "2", "0", "2">>,
      <<"2", "3", "0", "3">>,
      <<"2", "4", "0", "4">>,
      <<"2", "5", "0", "5">>,
      <<"2", "6", "0", "6">>,
      <<"2", "7", "0", "7">>,
      <<"2", "8", "0", "8">>,
      <<"2", "9", "0", "9">>,
      <<"2", "A", "0", "A">>,
      <<"2", "B", "0", "B">>,
      <<"2", "C", "0", "C">>,
      <<"2", "D", "0", "D">>,
      <<"2", "E", "0", "E">>,
      <<"2", "F", "0", "F">>,
      <<"2", "0", "1", "0">>,
      <<"2", "1", "1", "1", "A", "A">>>>

\* the frame lists parse_isotp_frames is applied to
FrameLists ==
    SeqsUpTo(FrameStrings, MaxFrames)
    \cup {SingleFromTest, TraceFromTest, SequenceViolation, WrapList}

\* the bytes of the enumerated UDS payloads: the services with a data
\* identifier, and 0x00, 0x01, 0x7F
UdsBytes == {34, 98, 46, 110, 47, 111, 0, 1, 127}

\* the payload of the Single frame 0562010205FF, and a response to service
\* 0x2F with the data identifier 0x0122
UdsFromTest == {<<98, 1, 2, 5, 255>>, <<111, 1, 34, 127>>}

\* the payloads parse_uds_response is applied to
UdsPayloads == SeqsUpTo(UdsBytes, MaxUdsLen) \cup UdsFromTest

(***************************************************************************)
(* The controller as constructed.                                          *)
(***************************************************************************)
Workers == 1..MaxWorkers

\* an entry of the log: a write of data, or a read that returned data
Write(by, data) == [by |-> by, op |-> "write", data |-> data]
Read(by, data) == [by |-> by, op |-> "read", data |-> data]

\* the number of writes in the log made by `by`
WritesBy(by) ==
    Cardinality({i \in 1..Len(wire) : wire[i].by = by /\ wire[i].op = "write"})

\* the number of writes made after construction
WritesInUse == WritesBy("send_message") + WritesBy("worker")

\* the requests send_message is called with: OBD-II PID 0x0D, the recorded
\* request 0x220102 to 0x7E4, the request of test_invalid_response_handling,
\* the request 0x0902 (a code whose first nibble is zero) to 0x7E0, and the
\* request 0x3E00 to the 29-bit identifier 0x18DA10F1
Requests ==
    {<<None, 13>>, <<2020, 2228482>>, <<2457, 10066329>>, <<2016, 2306>>,
     <<416944369, 15872>>}

\* cycle_time of enable_cyclic_tester_present, in seconds
CycleTimes == {1, 2}

\* MockConnection(), with the script a test may have given it
NewTransport(kind, script) ==
    [kind |-> kind, is_open |-> kind = "serial", read_buffer |-> <<>>,
     call_count |-> <<>>, responses |-> script, overrides |-> <<>>]

\* ELM327.__init__ up to the test of serial_connection
NewElm ==
    [serial_connection |-> "connection", tester_present_thread |-> None,
     tester_present_running |-> FALSE, tester_present_interval |-> 2]

\* the transport and the log after _connect has sent InitCommands[i..] and
\* read the replies
RECURSIVE Connect(_, _, _)
Connect(t, log, i) ==
    IF i > Len(InitCommands) THEN [transport |-> t, wire |-> log]
    ELSE LET line == CommandLine(InitCommands[i])
             got == MockRead(MockWrite(t, line), READ_SIZE)
         IN  Connect(got.transport,
                     log \o <<Write("connect", line), Read("connect", got.result)>>,
                     i + 1)

Idle == [pc |-> "idle", op |-> "none", can_id |-> None, pid |-> None,
         writes |-> 0, late |-> FALSE]

NoOutcome ==
    [op |-> "none", raised |-> "None", value |-> NoResponse, writes |-> 0,
     session |-> "Fresh"]

\* ELM327(serial_connection=MockConnection()): nothing is sent
ConstructedOnConnection(script) ==
    /\ elm = NewElm
    /\ transport = NewTransport("mock", script)
    /\ wire = <<>>
    /\ session = "Fresh"

\* ELM327(port): _connect opens the port and sends the six commands
ConstructedOnPort(script) ==
    /\ elm = NewElm
    /\ transport = Connect(NewTransport("serial", script), <<>>, 1).transport
    /\ wire = Connect(NewTransport("serial", script), <<>>, 1).wire
    /\ session = "Ready"

(***************************************************************************)
(* BLEConnection as constructed.                                           *)
(***************************************************************************)
\* the threads that _ensure_event_loop may start, each with a loop of its own
Loops == 1..MaxLoops

\* BLEConnection.__init__: closed, nothing buffered, no client, no loop
NewBle ==
    [is_open |-> FALSE, read_buffer |-> <<>>, buffer_lock |-> "free",
     client |-> "None", event_loop |-> None, loop_thread |-> None,
     loop_ready |-> FALSE]

\* the adapter before any BleakClient has connected
NoLink == [is_connected |-> FALSE, notifying |-> FALSE, loop |-> None]

\* no coroutine is scheduled on the loop
NoTask == [coro |-> "none", pc |-> "none", result |-> "none", awaited |-> FALSE]

\* a thread that has not been started, and its loop
NoLoop == [thread |-> "unborn", stop |-> FALSE, task |-> NoTask,
           handler |-> <<>>, handling |-> FALSE]

\* the caller between two calls
NoBleCall ==
    [pc |-> "idle", op |-> "none", size |-> 0, terminator |-> <<>>,
     data |-> <<>>, rest |-> <<>>, future |-> None, waited |-> FALSE]

\* no call has ended yet
NoIo == [op |-> "none", raised |-> "None", result |-> <<>>, waited |-> FALSE]

\* nothing has been notified, nothing has left the buffer
NoBytes == [arrived |-> <<>>, left |-> <<>>]

BleConstructed ==
    /\ ble = NewBle
    /\ gatt = NoLink
    /\ loops = [l \in Loops |-> NoLoop]
    /\ caller = NoBleCall
    /\ io = NoIo
    /\ rx = NoBytes

(***************************************************************************)
(* KiaNiroEV and SOCPublisher before they are constructed.                 *)
(***************************************************************************)
\* no KiaNiroEV yet: no read in progress, none made
NoKia ==
    [pc |-> "unborn", pid |-> None, attempt |-> 0, last_exc |-> "None",
     reads |-> 0, raised |-> "None", payload |-> <<>>]

\* SOCPublisher(config_file), before run(): the fields of __init__, the
\* locals of run(), and what the configuration gives for qos
NoPublisher ==
    [pc |-> "unborn", running |-> FALSE, polling_enabled |-> FALSE,
     last_soc |-> None, last_update_time |-> None, elm |-> "None",
     kia |-> "None", consecutive_errors |-> 0, qos_valid |-> TRUE,
     reads |-> 0, published |-> 0]

NoApplication == kia = NoKia /\ publisher = NoPublisher

(***************************************************************************)
(* The library in use.  A caller either works on one IsoTpMessage,         *)
(* constructing frames from raw bytes and calling add_frame and            *)
(* get_payload in any order, or applies parse_isotp_frames to a list of    *)
(* frame strings and parse_uds_response to the payload it returned, or     *)
(* applies parse_uds_response to a payload of its own.                     *)
(***************************************************************************)
NoCall ==
    [op |-> "none", frame_type |-> None, sequence_number |-> None,
     raised |-> "None", value |-> <<>>]

NotParsed == [op |-> "none", raised |-> "None", value |-> <<>>]

NotDecoded == [op |-> "none", raised |-> "None", value |-> NoResponse]

Init ==
    /\ message = NewMessage
    /\ last = NoCall
    /\ frame_data_list = <<>>
    /\ parsed = NotParsed
    /\ uds_payload = <<>>
    /\ response = NotDecoded
    /\ ConstructedOnConnection("recorded")
    /\ main = Idle
    /\ workers = [w \in Workers |-> "unborn"]
    /\ outcome = NoOutcome
    /\ BleConstructed
    /\ NoApplication

\* frame = IsoTpFrame(frame_bytes); message.add_frame(frame)
AddFrameCall ==
    /\ parsed.op = "none" /\ response.op = "none"
    /\ Len(message.payload) <= MaxPayload
    /\ \E fb \in FrameBytes :
        LET made == IsoTpFrame(fb)
            r == AddFrame(message, made.frame)
        IN  /\ message' = IF made.raised # "None" THEN message ELSE r.message
            /\ last' = [op |-> "add_frame",
                        frame_type |-> made.frame.frame_type,
                        sequence_number |-> made.frame.sequence_number,
                        raised |-> IF made.raised # "None" THEN made.raised ELSE r.raised,
                        value |-> <<>>]
            /\ UNCHANGED <<codecVars, elmVars, bleVars, appVars>>

\* message.get_payload()
GetPayloadCall ==
    LET r == GetPayload(message)
    IN  /\ parsed.op = "none" /\ response.op = "none"
        /\ message' = message
        /\ last' = [op |-> "get_payload", frame_type |-> None,
                    sequence_number |-> None,
                    raised |-> r.raised, value |-> r.value]
        /\ UNCHANGED <<codecVars, elmVars, bleVars, appVars>>

\* parse_isotp_frames(frame_data_list)
ParseIsoTpFramesCall ==
    /\ last.op = "none" /\ parsed.op = "none" /\ response.op = "none"
    /\ \E list \in FrameLists :
        LET r == ParseIsoTpFrames(list)
        IN  /\ frame_data_list' = list
            /\ parsed' = [op |-> "parse_isotp_frames", raised |-> r.raised,
                          value |-> r.value]
            /\ UNCHANGED <<isoVars, uds_payload, response, elmVars, bleVars, appVars>>

\* parse_uds_response(payload), on a payload of the caller's
ParseUdsResponseCall ==
    /\ last.op = "none" /\ parsed.op = "none" /\ response.op = "none"
    /\ \E payload \in UdsPayloads :
        LET r == ParseUdsResponse(payload)
        IN  /\ uds_payload' = payload
            /\ response' = [op |-> "parse_uds_response", raised |-> r.raised,
                            value |-> r.value]
            /\ UNCHANGED <<isoVars, frame_data_list, parsed, elmVars, bleVars, appVars>>

\* parse_uds_response(payload), on the payload parse_isotp_frames returned
DecodeParsedCall ==
    LET r == ParseUdsResponse(parsed.value)
    IN  /\ parsed.op = "parse_isotp_frames" /\ parsed.raised = "None"
        /\ response.op = "none"
        /\ uds_payload' = parsed.value
        /\ response' = [op |-> "parse_uds_response", raised |-> r.raised,
                        value |-> r.value]
        /\ UNCHANGED <<isoVars, frame_data_list, parsed, elmVars, bleVars, appVars>>

Next ==
    \/ AddFrameCall
    \/ GetPayloadCall
    \/ ParseIsoTpFramesCall
    \/ ParseUdsResponseCall
    \/ DecodeParsedCall

Spec == Init /\ [][Next]_vars

(***************************************************************************)
(* The controller in use.  One caller thread calls send_message,           *)
(* enable_cyclic_tester_present, disable_tester_present and close, one     *)
(* call at a time; each thread started by enable_cyclic_tester_present     *)
(* runs _tester_present_loop.  A step is what a thread does between two    *)
(* points where another thread can run: a write, a read, a sleep, a join.  *)
(*                                                                         *)
(* The transport is the scripted one in both ways of construction.  On a   *)
(* serial port a read(1024) lasts the whole timeout of 1 s unless 1024     *)
(* bytes arrive, so a worker that had passed its loop test when            *)
(* tester_present_running was cleared ends 0.1 s + 1 s + interval later,   *)
(* after the join has given up at interval + 1 s.                          *)
(***************************************************************************)
InitElm ==
    /\ message = NewMessage
    /\ last = NoCall
    /\ frame_data_list = <<>>
    /\ parsed = NotParsed
    /\ uds_payload = <<>>
    /\ response = NotDecoded
    /\ \/ ConstructedOnConnection("invalid_hex")
       \/ ConstructedOnPort("invalid_hex")
    /\ main = Idle
    /\ workers = [w \in Workers |-> "unborn"]
    /\ outcome = NoOutcome
    /\ BleConstructed
    /\ NoApplication

\* how a call of the caller thread ends
Return(op, raised, value) ==
    /\ main' = Idle
    /\ outcome' = [op |-> op, raised |-> raised, value |-> value,
                   writes |-> main.writes, session |-> session]

\* the test of elm327.py line 163: no connection is held
NoConnection(e) == e.serial_connection = "None"

\* send_message(can_id, pid), up to its first command
SendMessageCall ==
    /\ main.pc = "idle"
    /\ \E request \in Requests :
        /\ WritesInUse + (IF request[1] # None THEN 2 ELSE 1) <= MaxWrites
        /\ IF NoConnection(elm)
           THEN /\ main' = Idle
                /\ outcome' = [op |-> "send_message",
                               raised |-> "NotConnectedException",
                               value |-> NoResponse, writes |-> 0,
                               session |-> session]
           ELSE /\ main' = [pc |-> IF request[1] # None THEN "header_write"
                                   ELSE "request_write",
                            op |-> "send_message", can_id |-> request[1],
                            pid |-> request[2], writes |-> 0, late |-> FALSE]
                /\ outcome' = outcome
    /\ UNCHANGED <<isoVars, codecVars, bleVars, appVars, elm, transport, wire, workers, session>>

\* a send_message that writes the request line right after the header line
SendCommandWriteNoHeaderRead ==
    /\ main.pc \in {"header_write", "request_write"}
    /\ elm.serial_connection # "None"
    /\ LET command == IF main.pc = "header_write"
                      THEN HeaderCommand(main.can_id)
                      ELSE MessageCommand(main.can_id, main.pid)
       IN  /\ transport' = MockWrite(transport, CommandLine(command))
           /\ wire' = Append(wire, Write("send_message", CommandLine(command)))
           /\ main' = [main EXCEPT
                          !.pc = IF main.pc = "header_write"
                                 THEN "request_write" ELSE "request_read",
                          !.writes = @ + 1]
           /\ outcome' = outcome
    /\ UNCHANGED <<isoVars, codecVars, bleVars, appVars, elm, workers, session>>

\* _send_command, up to the sleep: the header line or the request line is
\* written
SendCommandWrite ==
    /\ main.pc \in {"header_write", "request_write"}
    /\ IF elm.serial_connection = "None"
       THEN /\ Return("send_message", "NotConnectedException", NoResponse)
            /\ UNCHANGED <<transport, wire>>
       ELSE LET command == IF main.pc = "header_write"
                           THEN HeaderCommand(main.can_id)
                           ELSE MessageCommand(main.can_id, main.pid)
            IN  /\ transport' = MockWrite(transport, CommandLine(command))
                /\ wire' = Append(wire, Write("send_message",
                                              CommandLine(command)))
                /\ main' = [main EXCEPT
                               !.pc = IF main.pc = "header_write"
                                      THEN "header_read" ELSE "request_read",
                               !.writes = @ + 1]
                /\ outcome' = outcome
    /\ UNCHANGED <<isoVars, codecVars, bleVars, appVars, elm, workers, session>>

\* a send_message that writes its request line again when decoding fails
SendCommandReadRetrying ==
    /\ main.pc \in {"header_read", "request_read"}
    /\ LET got == MockRead(transport, READ_SIZE)
           decoded == DecodeReply(Strip(DecodeAsciiIgnore(got.result)))
       IN  /\ transport' = got.transport
           /\ wire' = Append(wire, Read("send_message", got.result))
           /\ IF main.pc = "header_read"
                 \/ (decoded.raised # "None" /\ main.writes < 3)
              THEN /\ main' = [main EXCEPT !.pc = "request_write"]
                   /\ outcome' = outcome
              ELSE Return("send_message", decoded.raised, decoded.value)
    /\ UNCHANGED <<isoVars, codecVars, bleVars, appVars, elm, workers, session>>

\* _send_command, from the read on: the reply to the header line is dropped,
\* the reply to the request line is decoded and send_message returns
SendCommandRead ==
    /\ main.pc \in {"header_read", "request_read"}
    /\ LET got == MockRead(transport, READ_SIZE)
           response_str == Strip(DecodeAsciiIgnore(got.result))
           decoded == DecodeReply(response_str)
       IN  /\ transport' = got.transport
           /\ wire' = Append(wire, Read("send_message", got.result))
           /\ IF main.pc = "header_read"
              THEN /\ main' = [main EXCEPT !.pc = "request_write"]
                   /\ outcome' = outcome
              ELSE Return("send_message", decoded.raised, decoded.value)
    /\ UNCHANGED <<isoVars, codecVars, bleVars, appVars, elm, workers, session>>

\* enable_cyclic_tester_present(cycle_time)
EnableCyclicTesterPresent ==
    /\ main.pc = "idle"
    /\ \E cycle_time \in CycleTimes :
        IF elm.tester_present_running
        THEN /\ UNCHANGED <<elm, workers>>
             /\ Return("enable_cyclic_tester_present", "None", NoResponse)
        ELSE /\ \E w \in Workers : workers[w] = "unborn"
             /\ LET thread == CHOOSE w \in Workers :
                                /\ workers[w] = "unborn"
                                /\ \A v \in Workers :
                                     workers[v] = "unborn" => w <= v
                IN  /\ elm' = [elm EXCEPT !.tester_present_interval = cycle_time,
                                          !.tester_present_running = TRUE,
                                          !.tester_present_thread = thread]
                    /\ workers' = [workers EXCEPT ![thread] = "test"]
             /\ Return("enable_cyclic_tester_present", "None", NoResponse)
    /\ UNCHANGED <<isoVars, codecVars, bleVars, appVars, transport, wire, session>>

\* disable_tester_present() returns, to close() or to the caller
Disabled(op) ==
    IF op = "close"
    THEN /\ main' = [Idle EXCEPT !.op = "close", !.pc = "close_connection"]
         /\ outcome' = outcome
    ELSE Return("disable_tester_present", "None", NoResponse)

\* disable_tester_present(), called by the caller or by close(), up to the
\* join; `late` tells that the thread has passed its loop test and has a
\* read on a serial port ahead
BeginDisable(op) ==
    /\ main.pc = "idle"
    /\ elm' = [elm EXCEPT !.tester_present_running = FALSE]
    /\ IF elm.tester_present_thread # None
       THEN /\ main' = [Idle EXCEPT
                           !.op = op, !.pc = "join",
                           !.late = /\ transport.kind = "serial"
                                    /\ workers[elm.tester_present_thread]
                                           \in {"write", "read"}]
            /\ outcome' = outcome
       ELSE Disabled(op)
    /\ UNCHANGED <<isoVars, codecVars, bleVars, appVars, transport, wire, workers, session>>

\* disable_tester_present()
DisableTesterPresent == BeginDisable("disable_tester_present")

\* close(), which begins with disable_tester_present()
Close == BeginDisable("close")

\* a disable_tester_present that keeps the handle of the joined thread
AfterJoinKeepsHandle ==
    /\ Disabled(main.op)
    /\ UNCHANGED <<isoVars, codecVars, bleVars, appVars, elm, transport, wire, workers, session>>

\* what follows the join in disable_tester_present
AfterJoin ==
    /\ elm' = [elm EXCEPT !.tester_present_thread = None]
    /\ Disabled(main.op)
    /\ UNCHANGED <<isoVars, codecVars, bleVars, appVars, transport, wire, workers, session>>

\* tester_present_thread.join(timeout) returns: the thread has ended
JoinEnds ==
    /\ main.pc = "join"
    /\ workers[elm.tester_present_thread] = "dead"
    /\ AfterJoin

\* tester_present_thread.join(timeout) returns: the time is up, the thread
\* is in its sleep
JoinTimesOut ==
    /\ main.pc = "join"
    /\ main.late
    /\ workers[elm.tester_present_thread] = "sleep"
    /\ AfterJoin

\* close(): self.serial_connection.close()
CloseConnection ==
    /\ main.pc = "close_connection"
    /\ IF elm.serial_connection # "None"
       THEN /\ transport' = MockClose(transport)
            /\ main' = [main EXCEPT !.pc = "release_connection"]
            /\ UNCHANGED <<outcome, session>>
       ELSE /\ transport' = transport
            /\ session' = "Closed"
            /\ main' = Idle
            /\ outcome' = [op |-> "close", raised |-> "None",
                           value |-> NoResponse, writes |-> 0,
                           session |-> "Closed"]
    /\ UNCHANGED <<isoVars, codecVars, bleVars, appVars, elm, wire, workers>>

\* close(): self.serial_connection = None, and close() returns
ReleaseConnection ==
    /\ main.pc = "release_connection"
    /\ elm' = [elm EXCEPT !.serial_connection = "None"]
    /\ session' = "Closed"
    /\ main' = Idle
    /\ outcome' = [op |-> "close", raised |-> "None", value |-> NoResponse,
                   writes |-> 0, session |-> "Closed"]
    /\ UNCHANGED <<isoVars, codecVars, bleVars, appVars, transport, wire, workers>>

\* while self.tester_present_running: the loop goes on or the thread ends
LoopTest == IF elm.tester_present_running THEN "write" ELSE "dead"

\* _tester_present_loop, as the thread starts: the first loop test
WorkerTest(w) ==
    /\ workers[w] = "test"
    /\ workers' = [workers EXCEPT ![w] = LoopTest]
    /\ UNCHANGED <<isoVars, codecVars, bleVars, appVars, elm, transport, wire, main, outcome,
                   session>>

\* _send_command raises inside the thread: NotConnectedException without a
\* connection, AttributeError once close() has put None in its place, the
\* port's own error on a serial port that close() has closed
TickRaises ==
    \/ elm.serial_connection = "None"
    \/ transport.kind = "serial" /\ ~transport.is_open

\* a thread that an exception of _send_command ends
WorkerWriteDiesOnError(w) ==
    /\ workers[w] = "write"
    /\ WritesInUse < MaxWrites
    /\ IF TickRaises
       THEN /\ workers' = [workers EXCEPT ![w] = "dead"]
            /\ UNCHANGED <<transport, wire>>
       ELSE /\ transport' = MockWrite(transport, CommandLine(TesterPresent))
            /\ wire' = Append(wire, Write("worker", CommandLine(TesterPresent)))
            /\ workers' = [workers EXCEPT ![w] = "read"]
    /\ UNCHANGED <<isoVars, codecVars, bleVars, appVars, elm, main, outcome, session>>

\* _send_command('3E00'), up to the sleep: an exception is swallowed by the
\* loop's except Exception: pass; else the line is written
WorkerWrite(w) ==
    /\ workers[w] = "write"
    /\ WritesInUse < MaxWrites
    /\ IF TickRaises
       THEN /\ workers' = [workers EXCEPT ![w] = "sleep"]
            /\ UNCHANGED <<transport, wire>>
       ELSE /\ transport' = MockWrite(transport, CommandLine(TesterPresent))
            /\ wire' = Append(wire, Write("worker", CommandLine(TesterPresent)))
            /\ workers' = [workers EXCEPT ![w] = "read"]
    /\ UNCHANGED <<isoVars, codecVars, bleVars, appVars, elm, main, outcome, session>>

\* _send_command('3E00'): self.serial_connection.read(1024), the reply is
\* dropped
WorkerRead(w) ==
    /\ workers[w] = "read"
    /\ IF TickRaises
       THEN UNCHANGED <<transport, wire>>
       ELSE LET got == MockRead(transport, READ_SIZE)
            IN  /\ transport' = got.transport
                /\ wire' = Append(wire, Read("worker", got.result))
    /\ workers' = [workers EXCEPT ![w] = "sleep"]
    /\ UNCHANGED <<isoVars, codecVars, bleVars, appVars, elm, main, outcome, session>>

\* time.sleep(self._tester_present_interval) ends, and the next loop test
WorkerSleep(w) ==
    /\ workers[w] = "sleep"
    /\ workers' = [workers EXCEPT ![w] = LoopTest]
    /\ UNCHANGED <<isoVars, codecVars, bleVars, appVars, elm, transport, wire, main, outcome,
                   session>>

NextElm ==
    \/ SendMessageCall
    \/ SendCommandWrite
    \/ SendCommandRead
    \/ EnableCyclicTesterPresent
    \/ DisableTesterPresent
    \/ Close
    \/ JoinEnds
    \/ JoinTimesOut
    \/ CloseConnection
    \/ ReleaseConnection
    \/ \E w \in Workers : WorkerTest(w)
    \/ \E w \in Workers : WorkerWrite(w)
    \/ \E w \in Workers : WorkerRead(w)
    \/ \E w \in Workers : WorkerSleep(w)

SpecElm == InitElm /\ [][NextElm]_vars

(***************************************************************************)
(* The replies a test may script for the request 220102.                   *)
(***************************************************************************)
\* informational text ahead of the frames
ReplyInfo ==
    {<<>>,
     <<"S", "E", "A", "R", "C", "H", "I", "N", "G", ".", ".", ".", "\r">>,
     <<"O", "K", "\r">>,
     <<"B", "U", "S", "I", "N", "I", "T", ":", " ", "O", "K", "\r">>,
     <<"B", "U", "S", "I", "N", "I", "T", ".", ".", ".", "\r">>,
     <<"S", "E", "A", "R", "C", "H", "I", "N", "G", ".", ".", ".">>}

\* the lines after the informational text:
\*   no line at all
\*   a Single frame, bytes apart
\*   a Single frame, bytes together
\*   a Single frame of service 0x41
\*   First and Consecutive, the last byte is padding
\*   a First frame alone
\*   a First frame of its first byte only
\*   a frame of three hexadecimal digits
\*   a Consecutive frame without First
\*   First, then Consecutive out of sequence
\*   a frame after the message is complete
\*   a Single frame of length 0
\*   a Single frame of service 0x62 without data identifier
\*   hexadecimal text too short for a frame line
\*   two such lines
\*   an odd number of hexadecimal digits, too short for a frame line
\*   text that is not hexadecimal
\*   a line whose first three characters are not hexadecimal, then a frame
\*   lines ended by LF
\*   a Single frame after a sign and two hexadecimal digits
ReplyLines ==
    {<<>>,
     <<"7", "E", "C", " ", "0", "3", " ", "6", "2", " ", "0", "1", " ", "0",
       "2", " ", "\r">>,
     <<"7", "E", "C", "0", "4", "6", "2", "0", "1", "0", "2", "0", "5", "\r">>,
     <<"7", "E", "8", " ", "0", "3", " ", "4", "1", " ", "0", "D", " ", "3",
       "2", " ", "\r">>,
     <<"7", "E", "C", " ", "1", "0", " ", "0", "5", " ", "6", "2", " ", "0",
       "1", " ", "0", "2", " ", "\r", "7", "E", "C", " ", "2", "1", " ", "0",
       "5", " ", "0", "6", " ", "A", "A", " ", "\r">>,
     <<"7", "E", "C", " ", "1", "0", " ", "0", "5", " ", "6", "2", " ", "0",
       "1", " ", "0", "2", " ", "\r">>,
     <<"7", "E", "C", " ", "1", "0", " ", "\r">>,
     <<"7", "E", "C", " ", "0", "3", " ", "6", "\r">>,
     <<"7", "E", "C", " ", "2", "1", " ", "A", "A", " ", "\r">>,
     <<"7", "E", "C", " ", "1", "0", " ", "0", "5", " ", "6", "2", " ", "0",
       "1", " ", "0", "2", " ", "\r", "7", "E", "C", " ", "2", "2", " ", "0",
       "5", " ", "0", "6", " ", "A", "A", " ", "\r">>,
     <<"7", "E", "C", " ", "0", "3", " ", "6", "2", " ", "0", "1", " ", "0",
       "2", " ", "\r", "7", "E", "C", " ", "0", "3", " ", "6", "2", " ", "0",
       "1", " ", "0", "2", " ", "\r">>,
     <<"7", "E", "C", " ", "0", "0", " ", "\r">>,
     <<"7", "E", "C", " ", "0", "1", " ", "6", "2", " ", "\r">>,
     <<"4", "1", "0", "0", "\r">>,
     <<"4", "1", "\r", "0", "0", "\r">>,
     <<"4", "1", " ", "0", "\r">>,
     <<"I", "N", "V", "A", "L", "I", "D", "_", "H", "E", "X", "\r">>,
     <<"E", "L", "M", "3", "2", "7", " ", "v", "1", ".", "5", "\r", "7", "E",
       "C", " ", "0", "3", " ", "6", "2", " ", "0", "1", " ", "0", "2", " ",
       "\r">>,
     <<"7", "E", "C", " ", "0", "3", " ", "6", "2", " ", "0", "1", " ", "0",
       "2", " ", "\n">>,
     <<"+", "7", "E", " ", "0", "3", " ", "6", "2", " ", "0", "1", " ", "0",
       "2", " ", "\r">>}
\* where an error or status token stands: nowhere, on a line of its own
\* ahead of the other lines, or on a line of its own after them
TokenPlaces ==
    {<<<<>>, <<>>>>}
    \cup {<<Append(k, "\r"), <<>>>> : k \in ErrorKeywords}
    \cup {<<<<>>, Append(k, "\r")>> : k \in ErrorKeywords}

\* the frame line 7EC 2N 00 .. 00 with seven bytes of data
LongReplyLine(n) ==
    <<"7", "E", "C", " ", "2", HexDigits[(n % 16) + 1], " ">>
    \o <<"0", "0", " ", "0", "0", " ", "0", "0", " ", "0", "0", " ",
         "0", "0", " ", "0", "0", " ", "0", "0", " ", "\r">>

\* the Consecutive frame lines n..last of the long reply
RECURSIVE LongReplyLines(_, _)
LongReplyLines(n, final) ==
    IF n > final THEN <<>>
    ELSE LongReplyLine(n) \o LongReplyLines(n + 1, final)

\* a message of 0x0FF = 255 bytes: a First frame with 3 bytes and 36
\* Consecutive frames with 7 bytes each, 1066 characters with the prompt
LongReply ==
    <<"7", "E", "C", " ", "1", "0", " ", "F", "F", " ", "6", "2", " ",
      "0", "1", " ", "0", "2", " ", "\r">>
    \o LongReplyLines(1, 36) \o <<"\r", ">">>

\* the long reply with BUFFER FULL after its last frame
LongReplyBufferFull ==
    SubSeq(LongReply, 1, Len(LongReply) - 2)
    \o <<"B", "U", "F", "F", "E", "R", " ", "F", "U", "L", "L", "\r", "\r", ">">>

\* the adapter stays silent: nothing arrives before the read ends
SilentReply == <<>>

\* the replies scripted for 220102
Replies ==
    {info \o place[1] \o lines \o place[2] \o <<"\r", ">">> :
        info \in ReplyInfo, lines \in ReplyLines, place \in TokenPlaces}
    \cup {LongReply, LongReplyBufferFull, SilentReply, Reply220102}

\* mock.responses['220102'] = reply
ScriptReply(t, reply) ==
    [t EXCEPT !.overrides = [c \in {<<"2", "2", "0", "1", "0", "2">>} |-> reply]]

(***************************************************************************)
(* One caller and no tester-present thread: send_message on a controller   *)
(* whose transport replies to 220102 as scripted.                          *)
(***************************************************************************)
InitReply ==
    /\ message = NewMessage
    /\ last = NoCall
    /\ frame_data_list = <<>>
    /\ parsed = NotParsed
    /\ uds_payload = <<>>
    /\ response = NotDecoded
    /\ elm = NewElm
    /\ \E reply \in Replies :
        \/ /\ transport = ScriptReply(NewTransport("mock", "recorded"), reply)
           /\ wire = <<>>
           /\ session = "Fresh"
        \/ /\ transport = ScriptReply(
                              Connect(NewTransport("serial", "recorded"), <<>>, 1)
                                  .transport, reply)
           /\ wire = Connect(NewTransport("serial", "recorded"), <<>>, 1).wire
           /\ session = "Ready"
    /\ main = Idle
    /\ workers = [w \in Workers |-> "unborn"]
    /\ outcome = NoOutcome
    /\ BleConstructed
    /\ NoApplication

NextReply ==
    \/ SendMessageCall
    \/ SendCommandWrite
    \/ SendCommandRead

SpecReply == InitReply /\ [][NextReply]_vars

(***************************************************************************)
(* The BLEConnection in use.  One caller thread calls open, close, read,   *)
(* read_until and flush_input, one call at a time.  _ensure_event_loop     *)
(* starts a thread that runs an asyncio loop; the coroutines _open_async   *)
(* and _close_async and the notification handler run on that loop, one     *)
(* step at a time between two awaits.  A step of a thread is what it does  *)
(* between two points where the other thread can run.                      *)
(*                                                                         *)
(* future.result(timeout) gives up without cancelling the coroutine, which *)
(* then goes on by itself.  The caller dispatches a coroutine only when    *)
(* the loop has none.  _loop_ready.wait(timeout=2.0) is taken to end by    *)
(* the event being set.                                                    *)
(***************************************************************************)
\* the bytes the adapter notifies, in this order
Stream == <<"A", ">", "\r", ">">>

\* the sizes the caller reads with
ReadSizes == {1, 2}

\* the terminators the caller reads up to
Terminators == {<<">">>, <<"\r", ">">>}

\* what a BLE action leaves alone
BleFrame == UNCHANGED <<isoVars, codecVars, elmVars, appVars>>

\* a call on the BLEConnection ends
BleReturn(op, raised, result) ==
    /\ caller' = NoBleCall
    /\ io' = [op |-> op, raised |-> raised, result |-> result,
              waited |-> caller.waited]

\* a lock that never makes a thread wait
CanAcquireAlways(b) == TRUE

\* with self._buffer_lock: the lock can be taken
CanAcquire(b) == b.buffer_lock = "free"

\* the bytes, each with how it left the buffer: returned by a read or
\* discarded by flush_input
LeftBy(how, bytes) == [i \in 1..Len(bytes) |-> [byte |-> bytes[i], how |-> how]]

\* threading.Thread.is_alive
IsAlive(l) == loops[l].thread \in {"starting", "running"}

\* the loop thread l is between two callbacks
LoopIdle(l) == loops[l].thread = "running" /\ ~loops[l].handling

(***************************************************************************)
(* The caller: open and close.                                             *)
(***************************************************************************)
\* an open() that does not look at _is_open
BleOpenCallAlways ==
    /\ caller.pc = "idle"
    /\ caller' = [NoBleCall EXCEPT !.pc = "ensure_loop", !.op = "open"]
    /\ UNCHANGED <<ble, gatt, loops, io, rx>>
    /\ BleFrame

\* open(), up to _run_coroutine
BleOpenCall ==
    /\ caller.pc = "idle"
    /\ IF ble.is_open
       THEN BleReturn("open", "None", <<>>)
       ELSE /\ caller' = [NoBleCall EXCEPT !.pc = "ensure_loop", !.op = "open"]
            /\ io' = io
    /\ UNCHANGED <<ble, gatt, loops, rx>>
    /\ BleFrame

\* close(), up to _run_coroutine
BleCloseCall ==
    /\ caller.pc = "idle"
    /\ IF ~ble.is_open
       THEN BleReturn("close", "None", <<>>)
       ELSE /\ caller' = [NoBleCall EXCEPT !.pc = "ensure_loop", !.op = "close"]
            /\ io' = io
    /\ UNCHANGED <<ble, gatt, loops, rx>>
    /\ BleFrame

\* _ensure_event_loop, up to the wait: a thread is started unless one is alive
EnsureEventLoop ==
    /\ caller.pc = "ensure_loop"
    /\ IF ble.loop_thread = None \/ ~IsAlive(ble.loop_thread)
       THEN /\ \E l \in Loops : loops[l].thread = "unborn"
            /\ LET new == CHOOSE l \in Loops :
                              /\ loops[l].thread = "unborn"
                              /\ \A k \in Loops :
                                     loops[k].thread = "unborn" => l <= k
               IN  /\ loops' = [loops EXCEPT ![new].thread = "starting"]
                   /\ ble' = [ble EXCEPT !.loop_thread = new]
            /\ caller' = [caller EXCEPT !.pc = "loop_wait"]
       ELSE /\ caller' = [caller EXCEPT !.pc = "dispatch"]
            /\ UNCHANGED <<ble, loops>>
    /\ UNCHANGED <<gatt, io, rx>>
    /\ BleFrame

\* self._loop_ready.wait(timeout=2.0) returns: the event is set
LoopReadyWait ==
    /\ caller.pc = "loop_wait"
    /\ ble.loop_ready
    /\ caller' = [caller EXCEPT !.pc = "dispatch"]
    /\ UNCHANGED <<ble, gatt, loops, io, rx>>
    /\ BleFrame

\* close(), after _run_coroutine: the loop is told to stop and forgotten
BleCloseStop ==
    /\ ble' = [ble EXCEPT !.event_loop = None, !.is_open = FALSE]
    /\ BleReturn("close", "None", <<>>)

\* close(): self._event_loop.call_soon_threadsafe(self._event_loop.stop), if
\* there is a loop
StopAfterClose(ls) ==
    IF caller.op = "close" /\ ble.event_loop # None
    THEN [ls EXCEPT ![ble.event_loop].stop = TRUE]
    ELSE ls

\* _run_coroutine raises, or the coroutine raised: open() raises
\* ConnectionError, write() lets the ConnectionException through, close()
\* goes on
RunCoroutineRaises ==
    IF caller.op = "open"
    THEN /\ BleReturn("open", "ConnectionError", <<>>)
         /\ ble' = ble
    ELSE IF caller.op = "write"
    THEN /\ BleReturn("write", "ConnectionException", <<>>)
         /\ ble' = ble
    ELSE BleCloseStop

\* _run_coroutine, after _ensure_event_loop: without a loop it raises, else
\* the coroutine is scheduled on the loop
RunCoroutine ==
    /\ caller.pc = "dispatch"
    /\ IF ble.event_loop = None
       THEN /\ RunCoroutineRaises
            /\ loops' = loops
       ELSE /\ loops[ble.event_loop].task = NoTask
            /\ loops' = [loops EXCEPT ![ble.event_loop].task =
                            [coro |-> caller.op, pc |-> "start",
                             result |-> "pending", awaited |-> TRUE]]
            /\ caller' = [caller EXCEPT !.pc = "result",
                                        !.future = ble.event_loop]
            /\ UNCHANGED <<ble, io>>
    /\ UNCHANGED <<gatt, rx>>
    /\ BleFrame

\* future.result(timeout=self.timeout) returns or raises what the coroutine
\* returned or raised
FutureResult ==
    /\ caller.pc = "result"
    /\ loops[caller.future].task.result # "pending"
    /\ IF loops[caller.future].task.result = "done"
              /\ caller.op \in {"open", "write"}
       THEN /\ BleReturn(caller.op, "None", <<>>)
            /\ loops' = [loops EXCEPT ![caller.future].task = NoTask]
            /\ ble' = ble
       ELSE /\ RunCoroutineRaises
            /\ loops' = StopAfterClose(
                            [loops EXCEPT ![caller.future].task = NoTask])
    /\ UNCHANGED <<gatt, rx>>
    /\ BleFrame

\* future.result(timeout=self.timeout) gives up: the coroutine goes on alone
FutureTimeout ==
    /\ caller.pc = "result"
    /\ loops[caller.future].task.result = "pending"
    /\ RunCoroutineRaises
    /\ loops' = StopAfterClose(
                    [loops EXCEPT ![caller.future].task.awaited = FALSE])
    /\ UNCHANGED <<gatt, rx>>
    /\ BleFrame

(***************************************************************************)
(* The event-loop thread.                                                  *)
(***************************************************************************)
\* _run_event_loop, up to run_forever
RunEventLoop(l) ==
    /\ loops[l].thread = "starting"
    /\ loops' = [loops EXCEPT ![l].thread = "running"]
    /\ ble' = [ble EXCEPT !.event_loop = l, !.loop_ready = TRUE]
    /\ UNCHANGED <<gatt, caller, io, rx>>
    /\ BleFrame

\* run_forever returns: the loop runs the stop it was sent
LoopStops(l) ==
    /\ LoopIdle(l)
    /\ loops[l].stop
    /\ loops' = [loops EXCEPT ![l].thread = "ended"]
    /\ UNCHANGED <<ble, gatt, caller, io, rx>>
    /\ BleFrame

\* the coroutine on loop l is at this point
At(l, coro, pc) ==
    /\ LoopIdle(l)
    /\ loops[l].task.coro = coro
    /\ loops[l].task.pc = pc
    /\ loops[l].task.result = "pending"

\* the coroutine on loop l goes on to the next await
Goes(l, pc) == [loops EXCEPT ![l].task.pc = pc]

\* the coroutine on loop l ends: its result waits for the caller, if the
\* caller still waits
Ends(l, result) ==
    [loops EXCEPT ![l].task =
        IF @.awaited THEN [@ EXCEPT !.pc = "done", !.result = result]
                     ELSE NoTask]

\* _open_async, the except clause: disconnect, forget the client, raise
OpenAsyncFails(l) ==
    /\ gatt' = [gatt EXCEPT !.is_connected = FALSE, !.notifying = FALSE]
    /\ ble' = [ble EXCEPT !.client = "None"]
    /\ loops' = Ends(l, "ConnectionError")

\* _open_async, up to await self._client.connect()
OpenAsyncStart(l) ==
    /\ At(l, "open", "start")
    /\ IF ble.is_open
       THEN /\ loops' = Ends(l, "done")
            /\ ble' = ble
       ELSE /\ loops' = Goes(l, "connect")
            /\ ble' = [ble EXCEPT !.client = "BleakClient"]
    /\ UNCHANGED <<gatt, caller, io, rx>>
    /\ BleFrame

\* _open_async: connect() returns or raises, up to the next await
OpenAsyncConnect(l) ==
    /\ At(l, "open", "connect")
    /\ \E connected \in BOOLEAN :
           IF connected
           THEN /\ gatt' = [gatt EXCEPT !.is_connected = TRUE]
                /\ loops' = Goes(l, "discover")
                /\ ble' = ble
           ELSE OpenAsyncFails(l)
    /\ UNCHANGED <<caller, io, rx>>
    /\ BleFrame

\* _open_async: _discover_characteristics() returns or raises
OpenAsyncDiscover(l) ==
    /\ At(l, "open", "discover")
    /\ \E found \in BOOLEAN :
           IF found /\ ble.client # "None" /\ gatt.is_connected
           THEN /\ loops' = Goes(l, "start_notify")
                /\ UNCHANGED <<ble, gatt>>
           ELSE OpenAsyncFails(l)
    /\ UNCHANGED <<caller, io, rx>>
    /\ BleFrame

\* _open_async: start_notify() returns or raises; self._is_open = True
OpenAsyncNotify(l) ==
    /\ At(l, "open", "start_notify")
    /\ \E started \in BOOLEAN :
           IF started /\ ble.client # "None" /\ gatt.is_connected
           THEN /\ gatt' = [gatt EXCEPT !.notifying = TRUE, !.loop = l]
                /\ ble' = [ble EXCEPT !.is_open = TRUE]
                /\ loops' = Ends(l, "done")
           ELSE OpenAsyncFails(l)
    /\ UNCHANGED <<caller, io, rx>>
    /\ BleFrame

\* _close_async, up to await self._client.disconnect()
CloseAsyncStart(l) ==
    /\ At(l, "close", "start")
    /\ IF ~ble.is_open
       THEN /\ loops' = Ends(l, "done")
            /\ UNCHANGED <<ble, gatt>>
       ELSE IF ble.client = "None"
       THEN /\ loops' = Ends(l, "done")
            /\ ble' = [ble EXCEPT !.is_open = FALSE]
            /\ gatt' = gatt
       ELSE /\ loops' = Goes(l, "disconnect")
            /\ gatt' = [gatt EXCEPT !.notifying = FALSE]
            /\ ble' = ble
    /\ UNCHANGED <<caller, io, rx>>
    /\ BleFrame

\* _close_async: disconnect() returns or raises
CloseAsyncDisconnect(l) ==
    /\ At(l, "close", "disconnect")
    /\ gatt' = [gatt EXCEPT !.is_connected = FALSE, !.notifying = FALSE]
    /\ ble' = [ble EXCEPT !.client = "None", !.is_open = FALSE]
    /\ loops' = Ends(l, "done")
    /\ UNCHANGED <<caller, io, rx>>
    /\ BleFrame

\* _write_async, up to await self._client.write_gatt_char(...)
WriteAsyncStart(l) ==
    /\ At(l, "write", "start")
    /\ IF ~ble.is_open \/ ble.client = "None"
       THEN loops' = Ends(l, "ConnectionException")
       ELSE loops' = Goes(l, "write_gatt_char")
    /\ UNCHANGED <<ble, gatt, caller, io, rx>>
    /\ BleFrame

\* _write_async: write_gatt_char() returns or raises
WriteAsyncGatt(l) ==
    /\ At(l, "write", "write_gatt_char")
    /\ \E written \in BOOLEAN :
           loops' = Ends(l, IF written THEN "done" ELSE "ConnectionException")
    /\ UNCHANGED <<ble, gatt, caller, io, rx>>
    /\ BleFrame

(***************************************************************************)
(* The notification handler, on the loop the notifications were started    *)
(* on.  The adapter notifies the bytes of Stream in chunks of 1..MaxChunk. *)
(***************************************************************************)
\* _notification_handler, up to the body of with self._buffer_lock
HandlerEnter(l) ==
    /\ LoopIdle(l)
    /\ gatt.notifying /\ gatt.loop = l
    /\ CanAcquire(ble)
    /\ \E n \in 1..MaxChunk :
           /\ Len(rx.arrived) + n <= Len(Stream)
           /\ loops' = [loops EXCEPT
                           ![l].handling = TRUE,
                           ![l].handler = SubSeq(Stream, Len(rx.arrived) + 1,
                                                 Len(rx.arrived) + n)]
    /\ ble' = [ble EXCEPT !.buffer_lock = "handler"]
    /\ UNCHANGED <<gatt, caller, io, rx>>
    /\ BleFrame

\* _notification_handler: self._read_buffer.extend(data), the lock released
HandlerExtend(l) ==
    /\ loops[l].thread = "running"
    /\ loops[l].handling
    /\ ble' = [ble EXCEPT !.read_buffer = @ \o loops[l].handler,
                          !.buffer_lock = "free"]
    /\ rx' = [rx EXCEPT !.arrived = @ \o loops[l].handler]
    /\ loops' = [loops EXCEPT ![l].handling = FALSE, ![l].handler = <<>>]
    /\ UNCHANGED <<gatt, caller, io>>
    /\ BleFrame

(***************************************************************************)
(* The caller: read, read_until and flush_input.                           *)
(***************************************************************************)
\* bytes.rfind: the index of the last occurrence, counted from 0, or -1
FindBytesLast(data, sub) ==
    LET at == {i \in 1..(Len(data) - Len(sub) + 1) :
                   SubSeq(data, i, i + Len(sub) - 1) = sub}
    IN  IF at = {} THEN -1
        ELSE (CHOOSE i \in at : \A j \in at : i >= j) - 1

\* bytes.find: the index of the first occurrence, counted from 0, or -1
FindBytes(data, sub) ==
    LET at == {i \in 1..(Len(data) - Len(sub) + 1) :
                   SubSeq(data, i, i + Len(sub) - 1) = sub}
    IN  IF at = {} THEN -1
        ELSE (CHOOSE i \in at : \A j \in at : i <= j) - 1

\* write(data), up to _run_coroutine
BleWriteCall ==
    /\ caller.pc = "idle"
    /\ IF ~ble.is_open \/ ble.client = "None"
       THEN BleReturn("write", "ConnectionException", <<>>)
       ELSE /\ caller' = [NoBleCall EXCEPT !.pc = "ensure_loop", !.op = "write"]
            /\ io' = io
    /\ UNCHANGED <<ble, gatt, loops, rx>>
    /\ BleFrame

\* read(size), up to the loop
BleReadCall ==
    /\ caller.pc = "idle"
    /\ \E size \in ReadSizes :
           IF ~ble.is_open
           THEN BleReturn("read", "ConnectionException", <<>>)
           ELSE /\ caller' = [NoBleCall EXCEPT !.pc = "lock", !.op = "read",
                                                !.size = size]
                /\ io' = io
    /\ UNCHANGED <<ble, gatt, loops, rx>>
    /\ BleFrame

\* read_until(terminator), up to the loop
BleReadUntilCall ==
    /\ caller.pc = "idle"
    /\ \E terminator \in Terminators :
           IF ~ble.is_open
           THEN BleReturn("read_until", "ConnectionException", <<>>)
           ELSE /\ caller' = [NoBleCall EXCEPT !.pc = "lock",
                                                !.op = "read_until",
                                                !.terminator = terminator]
                /\ io' = io
    /\ UNCHANGED <<ble, gatt, loops, rx>>
    /\ BleFrame

\* flush_input(), up to with self._buffer_lock
BleFlushInputCall ==
    /\ caller.pc = "idle"
    /\ caller' = [NoBleCall EXCEPT !.pc = "lock", !.op = "flush_input"]
    /\ UNCHANGED <<ble, gatt, loops, io, rx>>
    /\ BleFrame

\* with self._buffer_lock: the caller takes the lock
BufferLock ==
    /\ caller.pc = "lock"
    /\ CanAcquire(ble)
    /\ ble' = [ble EXCEPT !.buffer_lock = "caller"]
    /\ caller' = [caller EXCEPT !.pc = "locked"]
    /\ UNCHANGED <<gatt, loops, io, rx>>
    /\ BleFrame

\* the caller leaves the with block without data
BufferUnlock ==
    /\ ble' = [ble EXCEPT !.buffer_lock = "free"]
    /\ caller' = [caller EXCEPT !.pc = "deadline"]

\* a reader that gives the lock back between its check and its removal
BufferTakeUnlocked(data, rest) ==
    /\ ble' = [ble EXCEPT !.buffer_lock = "free"]
    /\ caller' = [caller EXCEPT !.pc = "store", !.data = data, !.rest = rest]

\* the caller has the data to return and the buffer to keep
BufferTake(data, rest) ==
    /\ ble' = ble
    /\ caller' = [caller EXCEPT !.pc = "store", !.data = data, !.rest = rest]

\* read: if len(self._read_buffer) >= size, data and the right-hand side
\* self._read_buffer[size:]
BleReadCheck ==
    /\ caller.pc = "locked" /\ caller.op = "read"
    /\ IF Len(ble.read_buffer) >= caller.size
       THEN BufferTake(SubSeq(ble.read_buffer, 1, caller.size),
                       From(ble.read_buffer, caller.size))
       ELSE BufferUnlock
    /\ UNCHANGED <<gatt, loops, io, rx>>
    /\ BleFrame

\* read_until: if terminator in self._read_buffer, data and the right-hand
\* side self._read_buffer[pos + len(terminator):]
BleReadUntilCheck ==
    /\ caller.pc = "locked" /\ caller.op = "read_until"
    /\ LET pos == FindBytes(ble.read_buffer, caller.terminator)
           end == pos + Len(caller.terminator)
       IN  IF pos # -1
           THEN BufferTake(SubSeq(ble.read_buffer, 1, end),
                           From(ble.read_buffer, end))
           ELSE BufferUnlock
    /\ UNCHANGED <<gatt, loops, io, rx>>
    /\ BleFrame

\* read and read_until: self._read_buffer = the rest, the lock released,
\* return data
BufferStore ==
    /\ caller.pc = "store"
    /\ ble' = [ble EXCEPT !.read_buffer = caller.rest, !.buffer_lock = "free"]
    /\ rx' = [rx EXCEPT !.left = @ \o LeftBy("returned", caller.data)]
    /\ BleReturn(caller.op, "None", caller.data)
    /\ UNCHANGED <<gatt, loops>>
    /\ BleFrame

\* a reader that empties the buffer as its time is up
BufferDeadlineClears ==
    /\ caller.pc = "deadline"
    /\ \/ /\ BleReturn(caller.op, "ConnectionTimeoutError", <<>>)
          /\ ble' = [ble EXCEPT !.read_buffer = <<>>]
       \/ /\ caller' = [caller EXCEPT !.pc = "lock", !.waited = TRUE]
          /\ UNCHANGED <<ble, io>>
    /\ UNCHANGED <<gatt, loops, rx>>
    /\ BleFrame

\* read and read_until: the time is up and ConnectionTimeoutError is raised,
\* or time.sleep(0.01) and once more
BufferDeadline ==
    /\ caller.pc = "deadline"
    /\ \/ BleReturn(caller.op, "ConnectionTimeoutError", <<>>)
       \/ /\ caller' = [caller EXCEPT !.pc = "lock", !.waited = TRUE]
          /\ io' = io
    /\ UNCHANGED <<ble, gatt, loops, rx>>
    /\ BleFrame

\* flush_input: self._read_buffer.clear(), the lock released
BleFlushInput ==
    /\ caller.pc = "locked" /\ caller.op = "flush_input"
    /\ ble' = [ble EXCEPT !.read_buffer = <<>>, !.buffer_lock = "free"]
    /\ rx' = [rx EXCEPT !.left = @ \o LeftBy("discarded", ble.read_buffer)]
    /\ BleReturn("flush_input", "None", <<>>)
    /\ UNCHANGED <<gatt, loops>>
    /\ BleFrame

(***************************************************************************)
(* The BLEConnection from its construction on.                             *)
(***************************************************************************)
InitBle == Init

NextBle ==
    \/ BleOpenCall
    \/ BleCloseCall
    \/ EnsureEventLoop
    \/ LoopReadyWait
    \/ RunCoroutine
    \/ FutureResult
    \/ FutureTimeout
    \/ BleWriteCall
    \/ BleReadCall
    \/ BleReadUntilCall
    \/ BleFlushInputCall
    \/ BufferLock
    \/ BleReadCheck
    \/ BleReadUntilCheck
    \/ BufferStore
    \/ BufferDeadline
    \/ BleFlushInput
    \/ \E l \in Loops :
           \/ RunEventLoop(l)
           \/ LoopStops(l)
           \/ OpenAsyncStart(l)
           \/ OpenAsyncConnect(l)
           \/ OpenAsyncDiscover(l)
           \/ OpenAsyncNotify(l)
           \/ CloseAsyncStart(l)
           \/ CloseAsyncDisconnect(l)
           \/ WriteAsyncStart(l)
           \/ WriteAsyncGatt(l)
           \/ HandlerEnter(l)
           \/ HandlerExtend(l)

SpecBle == InitBle /\ [][NextBle]_vars

(***************************************************************************)
(* The MockConnection in use by itself: a test calls open, close, write,   *)
(* read, read_until and flush_input on it, one call at a time.             *)
(***************************************************************************)
\* the lines a test writes: a scripted command and one that is not
MockLines == {CommandLine(<<"A", "T", "E", "0">>), CommandLine(<<"0", "1", "0", "0">>)}

\* the sizes a test reads with
MockReadSizes == {1, READ_SIZE}

\* the terminators a test reads up to
MockTerminators == {<<">">>, <<"\r", "\r", ">">>}

\* the writes made on the transport so far: the sum of call_count
RECURSIVE SumOver(_, _)
SumOver(count, commands) ==
    IF commands = {} THEN 0
    ELSE LET command == CHOOSE c \in commands : TRUE
         IN  count[command] + SumOver(count, commands \ {command})

MockWrites(t) == SumOver(t.call_count, DOMAIN t.call_count)

\* MockConnection.read_until(terminator): what is returned, and the
\* transport afterwards
MockReadUntil(t, terminator) ==
    LET idx == FindBytes(t.read_buffer, terminator)
        end == idx + Len(terminator)
    IN  IF idx # -1
        THEN [result |-> Slice(t.read_buffer, 0, end),
              transport |-> [t EXCEPT !.read_buffer = From(t.read_buffer, end)]]
        ELSE [result |-> t.read_buffer,
              transport |-> [t EXCEPT !.read_buffer = <<>>]]

\* what a call on the MockConnection leaves alone
MockFrame ==
    UNCHANGED <<isoVars, codecVars, elm, main, workers, outcome,
                session, ble, gatt, loops, caller, appVars>>

\* the bytes that leave the mock's buffer in a call, returned or discarded
MockLeaves(how, bytes) ==
    /\ rx' = [rx EXCEPT !.left = @ \o LeftBy(how, bytes)]
    /\ wire' = wire

\* a call on the MockConnection returns
MockReturn(op, result) ==
    io' = [op |-> op, raised |-> "None", result |-> result, waited |-> FALSE]

\* MockConnection.open()
MockOpenCall ==
    /\ transport' = [transport EXCEPT !.is_open = TRUE]
    /\ MockReturn("mock_open", <<>>)
    /\ UNCHANGED <<wire, rx>>
    /\ MockFrame

\* MockConnection.close()
MockCloseCall ==
    /\ transport' = MockClose(transport)
    /\ MockLeaves("discarded", transport.read_buffer)
    /\ MockReturn("mock_close", <<>>)
    /\ MockFrame

\* MockConnection.write(data)
MockWriteCall ==
    /\ MockWrites(transport) < MaxWrites
    /\ \E data \in MockLines :
           /\ transport' = MockWrite(transport, data)
           /\ wire' = Append(wire, Write("test", data))
           /\ rx' = [rx EXCEPT !.arrived =
                         @ \o From(MockWrite(transport, data).read_buffer,
                                   Len(transport.read_buffer))]
    /\ MockReturn("mock_write", <<>>)
    /\ MockFrame

\* MockConnection.read(size)
MockReadCall ==
    /\ \E size \in MockReadSizes :
           LET got == MockRead(transport, size)
           IN  /\ transport' = got.transport
               /\ MockLeaves("returned", got.result)
               /\ MockReturn("mock_read", got.result)
    /\ MockFrame

\* MockConnection.read_until(terminator)
MockReadUntilCall ==
    /\ \E terminator \in MockTerminators :
           LET got == MockReadUntil(transport, terminator)
           IN  /\ transport' = got.transport
               /\ MockLeaves("returned", got.result)
               /\ MockReturn("mock_read_until", got.result)
    /\ MockFrame

\* MockConnection.flush_input()
MockFlushInputCall ==
    /\ transport' = [transport EXCEPT !.read_buffer = <<>>]
    /\ MockLeaves("discarded", transport.read_buffer)
    /\ MockReturn("mock_flush_input", <<>>)
    /\ MockFrame

InitMock == Init

NextMock ==
    \/ MockOpenCall
    \/ MockCloseCall
    \/ MockWriteCall
    \/ MockReadCall
    \/ MockReadUntilCall
    \/ MockFlushInputCall

SpecMock == InitMock /\ [][NextMock]_vars

(***************************************************************************)
(* KiaNiroEV on a controller constructed on a connection, as the test of   *)
(* the class constructs it: one caller, no tester-present thread.  A call  *)
(* of send_message is one step.  Between two attempts of _read_bms_data    *)
(* the reader sleeps, and the vehicle's answer to 220102 may change.       *)
(***************************************************************************)
BMS_REQUEST_ID == 2020
READ_DATA_BY_ID == 34
PID_BMS_MAIN == 257
PID_CELL_VOLTAGES_1 == 258
PID_CELL_VOLTAGES_2 == 259

\* self._read_retries
READ_RETRIES == 5

\* the identifiers _read_bms_data is called with: one the vehicle answers
\* as scripted, one it does not know
KiaPids == {PID_CELL_VOLTAGES_1, PID_CELL_VOLTAGES_2}

\* the answers of the vehicle to 220102: the recorded one, none, and '?'
KiaReplies == {Reply220102, SilentReply, ReplyUnknown}

\* hasattr(obj, name), on an object held as a record
HasAttribute(obj, name) == name \in DOMAIN obj

\* connection.flush_input(), as _read_bms_data calls it
Flush(by) == [by |-> by, op |-> "flush_input", data |-> <<>>]

\* what an action of the KiaNiroEV leaves alone
KiaFrame ==
    UNCHANGED <<isoVars, codecVars, bleVars, elm, workers, session, publisher>>

\* self.elm.send_message(self.bms_can_id, uds_command), up to its first
\* command
KiaSendMessage(uds_command) ==
    IF NoConnection(elm)
    THEN /\ main' = Idle
         /\ outcome' = [op |-> "send_message",
                        raised |-> "NotConnectedException",
                        value |-> NoResponse, writes |-> 0,
                        session |-> session]
    ELSE /\ main' = [pc |-> "header_write", op |-> "send_message",
                     can_id |-> BMS_REQUEST_ID, pid |-> uds_command,
                     writes |-> 0, late |-> FALSE]
         /\ outcome' = outcome

\* KiaNiroEV(elm), up to the warmup request
KiaConstruct ==
    /\ kia.pc = "unborn"
    /\ KiaSendMessage(READ_DATA_BY_ID * 65536 + PID_BMS_MAIN)
    /\ kia' = [NoKia EXCEPT !.pc = "warmup"]
    /\ UNCHANGED <<transport, wire>>
    /\ KiaFrame

\* KiaNiroEV(elm): the warmup request has returned or raised, which is
\* swallowed
KiaWarmupEnds ==
    /\ kia.pc = "warmup"
    /\ main.pc = "idle"
    /\ kia' = [kia EXCEPT !.pc = "idle"]
    /\ UNCHANGED <<transport, wire, main, outcome>>
    /\ KiaFrame

\* _read_bms_data(pid), up to the loop
KiaReadCall ==
    /\ kia.pc = "idle"
    /\ kia.reads < MaxReads
    /\ \E pid \in KiaPids :
           kia' = [NoKia EXCEPT !.pc = "attempt", !.pid = pid, !.attempt = 1,
                                !.reads = kia.reads + 1]
    /\ UNCHANGED <<transport, wire, main, outcome>>
    /\ KiaFrame

\* a _read_bms_data that flushes through the attribute the controller has
KiaFlushesSerialConnection(e, attempt) ==
    attempt > 1 /\ HasAttribute(e, "serial_connection")

\* _read_bms_data: self.elm.connection.flush_input() on a retry; the
\* AttributeError of a controller without `connection` is swallowed
KiaFlushes(e, attempt) == attempt > 1 /\ HasAttribute(e, "connection")

\* one pass of the loop of _read_bms_data, up to send_message
KiaAttempt ==
    /\ kia.pc = "attempt"
    /\ IF KiaFlushes(elm, kia.attempt)
       THEN /\ transport' = [transport EXCEPT !.read_buffer = <<>>]
            /\ wire' = Append(wire, Flush("kia"))
       ELSE UNCHANGED <<transport, wire>>
    /\ KiaSendMessage(READ_DATA_BY_ID * 65536 + kia.pid)
    /\ kia' = [kia EXCEPT !.pc = "send_message"]
    /\ KiaFrame

\* _read_bms_data, after send_message: return response.payload, or the
\* except clause, which raises after the last attempt and sleeps otherwise
KiaAttemptEnds ==
    /\ kia.pc = "send_message"
    /\ main.pc = "idle"
    /\ kia' = IF outcome.raised = "None"
              THEN [kia EXCEPT !.pc = "idle", !.payload = outcome.value.payload]
              ELSE IF kia.attempt = READ_RETRIES
              THEN [kia EXCEPT !.pc = "idle", !.last_exc = outcome.raised,
                               !.raised = outcome.raised]
              ELSE [kia EXCEPT !.pc = "backoff", !.last_exc = outcome.raised]
    /\ UNCHANGED <<transport, wire, main, outcome>>
    /\ KiaFrame

\* time.sleep(backoff_time) ends and the loop goes on
KiaBackoff ==
    /\ kia.pc = "backoff"
    /\ kia' = [kia EXCEPT !.pc = "attempt", !.attempt = @ + 1]
    /\ UNCHANGED <<transport, wire, main, outcome>>
    /\ KiaFrame

\* the vehicle's answer to 220102 changes while the reader sleeps
ReplyChanges ==
    /\ kia.pc = "backoff"
    /\ \E reply \in KiaReplies :
           /\ transport.overrides[<<"2", "2", "0", "1", "0", "2">>] # reply
           /\ transport' = ScriptReply(transport, reply)
    /\ UNCHANGED <<wire, main, outcome, kia>>
    /\ KiaFrame

InitKia ==
    /\ message = NewMessage
    /\ last = NoCall
    /\ frame_data_list = <<>>
    /\ parsed = NotParsed
    /\ uds_payload = <<>>
    /\ response = NotDecoded
    /\ elm = NewElm
    /\ \E reply \in KiaReplies :
           transport = ScriptReply(NewTransport("mock", "recorded"), reply)
    /\ wire = <<>>
    /\ session = "Fresh"
    /\ main = Idle
    /\ workers = [w \in Workers |-> "unborn"]
    /\ outcome = NoOutcome
    /\ BleConstructed
    /\ NoApplication

NextKia ==
    \/ KiaConstruct
    \/ KiaWarmupEnds
    \/ KiaReadCall
    \/ KiaAttempt
    \/ SendCommandWrite
    \/ SendCommandRead
    \/ KiaAttemptEnds
    \/ KiaBackoff
    \/ ReplyChanges

SpecKia == InitKia /\ [][NextKia]_vars

(***************************************************************************)
(* SOCPublisher.run().  The main thread runs the loops of run(); the MQTT  *)
(* client's thread delivers the trigger messages to _on_mqtt_message and   *)
(* a signal sets running to False, each at any moment.  The vehicle is     *)
(* seen through what get_soc() returns or raises and through whether the   *)
(* controller starts on the connection; the publish raises when the        *)
(* configured qos is not one the client takes.                             *)
(***************************************************************************)
\* max_consecutive_errors of run()
MAX_CONSECUTIVE_ERRORS == 3

\* what get_soc() returns, in percent, when the vehicle answers
Socs == {52, 53}

\* ELM327(connection) and initialize(): the controller ends Ready, or the
\* start fails
InitializeOutcomes == {"Ready", "AdapterInit"}

\* what an action of the publisher leaves alone
PublisherFrame == UNCHANGED <<isoVars, codecVars, elmVars, bleVars, kia>>

\* the threads of the MQTT clients run and signals are handled
PublisherAlive == publisher.pc \notin {"unborn", "done"}

\* run(), up to the first connection attempt: _setup_mqtt() returns True,
\* or returns False and run() returns
PublisherRun ==
    /\ publisher.pc = "unborn"
    /\ \E setup \in BOOLEAN, qos_valid \in BOOLEAN :
           publisher' =
               IF setup
               THEN [publisher EXCEPT !.pc = "connect", !.running = TRUE,
                                      !.qos_valid = qos_valid]
               ELSE [publisher EXCEPT !.pc = "done"]
    /\ PublisherFrame

\* _connect_vehicle(): True with the controller and the KiaNiroEV held, or
\* False with the fields as they were
ConnectVehicle(p, outcome_of_initialize) ==
    IF outcome_of_initialize = "Ready"
    THEN [p EXCEPT !.elm = "ELM327", !.kia = "KiaNiroEV"]
    ELSE p

\* cleanup(): the controller is closed, the clients are stopped
Cleanup(p) == [p EXCEPT !.pc = "done"]

\* run(): while self.running and not connected, one attempt
InitialConnect ==
    /\ publisher.pc = "connect"
    /\ IF ~publisher.running
       THEN publisher' = Cleanup(publisher)
       ELSE \E o \in InitializeOutcomes :
                publisher' =
                    [ConnectVehicle(publisher, o) EXCEPT
                        !.pc = IF o = "Ready" THEN "loop" ELSE "connect_sleep",
                        !.consecutive_errors = 0]
    /\ PublisherFrame

\* run(): the sleep of retry_delay after a failed attempt ends
ConnectSleep ==
    /\ publisher.pc = "connect_sleep"
    /\ publisher' = [publisher EXCEPT !.pc = "connect"]
    /\ PublisherFrame

\* run(): while self.running, and cleanup() after the loop
LoopHead ==
    /\ publisher.pc = "loop"
    /\ publisher' = IF publisher.running
                    THEN [publisher EXCEPT !.pc = "poll"]
                    ELSE Cleanup(publisher)
    /\ PublisherFrame

\* run(): if self.polling_enabled
PollTest ==
    /\ publisher.pc = "poll"
    /\ IF publisher.polling_enabled
       THEN /\ publisher.reads < MaxPolls
            /\ publisher' = [publisher EXCEPT !.pc = "read", !.reads = @ + 1]
       ELSE publisher' = [publisher EXCEPT !.pc = "sleep"]
    /\ PublisherFrame

\* run(), after _read_and_publish_soc() has returned False: the error is
\* counted, and at max_consecutive_errors the vehicle is reconnected
CountError(p) ==
    [p EXCEPT !.consecutive_errors = @ + 1,
              !.pc = IF p.consecutive_errors + 1 >= MAX_CONSECUTIVE_ERRORS
                     THEN "reconnect" ELSE "sleep"]

\* _read_and_publish_soc(): self.kia.get_soc() returns, and last_soc and
\* last_update_time are set, or it raises and False is returned
ReadSoc ==
    /\ publisher.pc = "read"
    /\ \/ /\ publisher.kia # "None"
          /\ \E soc \in Socs :
                 publisher' = [publisher EXCEPT
                                  !.last_soc = soc,
                                  !.last_update_time = publisher.reads,
                                  !.pc = "publish"]
       \/ publisher' = CountError(publisher)
    /\ PublisherFrame

\* _read_and_publish_soc(): _publish_soc() returns and True is returned, the
\* counter is reset; or it raises before anything is published and False
\* is returned
PublishSoc ==
    /\ publisher.pc = "publish"
    /\ publisher' =
           IF publisher.qos_valid
           THEN [publisher EXCEPT !.published = @ + 1,
                                  !.consecutive_errors = 0, !.pc = "sleep"]
           ELSE CountError(publisher)
    /\ PublisherFrame

\* _reconnect_vehicle(): the controller held is closed and forgotten
ReconnectClose ==
    /\ publisher.pc = "reconnect"
    /\ publisher' = [publisher EXCEPT !.elm = "None", !.kia = "None",
                                      !.pc = "reconnect_try"]
    /\ PublisherFrame

\* _reconnect_vehicle() has returned: consecutive_errors = 0
Reconnected(p) == [p EXCEPT !.consecutive_errors = 0, !.pc = "sleep"]

\* _reconnect_vehicle(): while self.running, one attempt
ReconnectTry ==
    /\ publisher.pc = "reconnect_try"
    /\ IF ~publisher.running
       THEN publisher' = Reconnected(publisher)
       ELSE \E o \in InitializeOutcomes :
                publisher' =
                    IF o = "Ready"
                    THEN Reconnected(ConnectVehicle(publisher, o))
                    ELSE [publisher EXCEPT !.pc = "reconnect_sleep"]
    /\ PublisherFrame

\* _reconnect_vehicle(): the sleep of retry_delay ends; after a shutdown
\* it returns False
ReconnectSleep ==
    /\ publisher.pc = "reconnect_sleep"
    /\ publisher' = IF publisher.running
                    THEN [publisher EXCEPT !.pc = "reconnect_try"]
                    ELSE Reconnected(publisher)
    /\ PublisherFrame

\* run(): the sleep of the interval ends
IntervalSleep ==
    /\ publisher.pc = "sleep"
    /\ publisher' = [publisher EXCEPT !.pc = "loop"]
    /\ PublisherFrame

\* _on_mqtt_message: the trigger topic enables or disables the polling
TriggerMessage ==
    /\ PublisherAlive
    /\ publisher' = [publisher EXCEPT !.polling_enabled = ~@]
    /\ PublisherFrame

\* _signal_handler: self.running = False
Signal ==
    /\ PublisherAlive
    /\ publisher.running
    /\ publisher' = [publisher EXCEPT !.running = FALSE]
    /\ PublisherFrame

InitPublisher == Init

NextPublisher ==
    \/ PublisherRun
    \/ InitialConnect
    \/ ConnectSleep
    \/ LoopHead
    \/ PollTest
    \/ ReadSoc
    \/ PublishSoc
    \/ ReconnectClose
    \/ ReconnectTry
    \/ ReconnectSleep
    \/ IntervalSleep
    \/ TriggerMessage
    \/ Signal

SpecPublisher == InitPublisher /\ [][NextPublisher]_vars

(***************************************************************************)
(* The claims about the reassembler (C1..C6).                              *)
(***************************************************************************)
\* a call of add_frame was made in this step, on a frame of type t
Offered(t) == last'.op = "add_frame" /\ last'.frame_type = t

\* C1: whenever is_complete is true, len(payload) == expected_length
\* exactly, after any sequence of add_frame calls.
C1_CompleteLengthExact ==
    message.is_complete => Len(message.payload) = message.expected_length

\* frame i of a list of frame strings, as bytes
FrameAt(list, i) == FromHex(list[i]).value

\* every string of the list is hexadecimal text of at least one byte
AllHex(list) ==
    \A i \in 1..Len(list) :
        FromHex(list[i]).raised = "None" /\ Len(FrameAt(list, i)) >= 1

\* the data field of a frame: what follows its one PCI byte, two in a First
DataField(fb) == IF fb[1] \div 16 = 1 THEN From(fb, 2) ELSE From(fb, 1)

\* the data fields of frames 1..n of the list, concatenated
RECURSIVE DataUpTo(_, _)
DataUpTo(list, n) ==
    IF n = 0 THEN <<>>
    ELSE DataUpTo(list, n - 1) \o DataField(FrameAt(list, n))

\* one Single frame carrying the L data bytes it declares
WellFormedSingle(list) ==
    /\ Len(list) = 1
    /\ AllHex(list)
    /\ FrameAt(list, 1)[1] \div 16 = 0
    /\ Len(DataField(FrameAt(list, 1))) >= FrameAt(list, 1)[1] % 16

\* the length a First frame declares
DeclaredLength(fb) == (fb[1] % 16) * 256 + fb[2]

\* the list starts with a First frame, and frame i + 1 is the Consecutive
\* frame numbered i modulo 16
FirstThenConsecutive(list) ==
    /\ Len(list) >= 1
    /\ AllHex(list)
    /\ FrameAt(list, 1)[1] \div 16 = 1
    /\ Len(FrameAt(list, 1)) >= 2
    /\ \A i \in 2..Len(list) :
           /\ FrameAt(list, i)[1] \div 16 = 2
           /\ FrameAt(list, i)[1] % 16 = (i - 1) % 16

\* a First frame declaring N, then Consecutive frames numbered 1, 2, ...
\* modulo 16, the last of which is the frame that reaches N bytes of data
WellFormedMulti(list) ==
    /\ Len(list) >= 2
    /\ FirstThenConsecutive(list)
    /\ Len(DataUpTo(list, Len(list) - 1)) < DeclaredLength(FrameAt(list, 1))
    /\ Len(DataUpTo(list, Len(list))) >= DeclaredLength(FrameAt(list, 1))

\* C2: on a well-formed frame list parse_isotp_frames succeeds and returns
\* the first N (Single: L) bytes of the frames' data fields, concatenated in
\* frame order.
C2_WellFormedParse ==
    parsed.op = "parse_isotp_frames" =>
        /\ WellFormedSingle(frame_data_list) =>
               /\ parsed.raised = "None"
               /\ parsed.value = Slice(DataUpTo(frame_data_list, 1), 0,
                                       FrameAt(frame_data_list, 1)[1] % 16)
        /\ WellFormedMulti(frame_data_list) =>
               /\ parsed.raised = "None"
               /\ parsed.value = Slice(DataUpTo(frame_data_list, Len(frame_data_list)), 0,
                                       DeclaredLength(FrameAt(frame_data_list, 1)))

\* C2's case: the 18 frames whose sequence numbers wrap were parsed into the
\* 20 bytes declared, the padding byte of the last frame dropped
C2_Witness ==
    /\ parsed.op = "parse_isotp_frames"
    /\ frame_data_list = WrapList
    /\ WellFormedMulti(frame_data_list)
    /\ parsed.raised = "None"
    /\ Len(parsed.value) = 20
    /\ Len(DataUpTo(frame_data_list, Len(frame_data_list))) = 21

\* C3: a Consecutive frame is accepted only if its sequence number is
\* next_sequence; next_sequence is 1 after an accepted First frame and
\* (next_sequence + 1) mod 16 after each accepted Consecutive frame; any
\* other Consecutive frame is rejected with ValueError.
C3_SequenceOrder ==
    [][/\ Offered(CONSECUTIVE_FRAME) =>
              /\ last'.raised = "None" =>
                     /\ last'.sequence_number = message.next_sequence
                     /\ message'.next_sequence = (message.next_sequence + 1) % 16
              /\ last'.sequence_number # message.next_sequence =>
                     /\ last'.raised = "ValueError"
                     /\ message' = message
       /\ (Offered(FIRST_FRAME) /\ last'.raised = "None") =>
              message'.next_sequence = 1]_vars

\* C3's case: the Consecutive frame numbered 0 was accepted (after 15) and
\* the frame numbered 1 is expected next
C3_Witness ==
    /\ last.op = "add_frame"
    /\ last.frame_type = CONSECUTIVE_FRAME
    /\ last.raised = "None"
    /\ last.sequence_number = 0
    /\ message.next_sequence = 1

\* C4: a Single or First frame offered once the payload is not empty fails
\* with ValueError and leaves the payload as it was.
C4_SingleFirstOnlyWhenEmpty ==
    [][((Offered(SINGLE_FRAME) \/ Offered(FIRST_FRAME)) /\ Len(message.payload) > 0) =>
           /\ last'.raised = "ValueError"
           /\ message'.payload = message.payload]_vars

\* C5: a Consecutive frame offered while expected_length is unset or the
\* message is complete fails with ValueError, and its data is not appended.
C5_ConsecutiveNeedsFirst ==
    [][(Offered(CONSECUTIVE_FRAME)
        /\ (message.expected_length = None \/ message.is_complete)) =>
           /\ last'.raised = "ValueError"
           /\ message'.payload = message.payload]_vars

\* C5's case: a Consecutive frame was rejected on a message no First frame
\* has started
C5_Witness ==
    /\ last.op = "add_frame"
    /\ last.frame_type = CONSECUTIVE_FRAME
    /\ last.raised = "ValueError"
    /\ message.expected_length = None
    /\ message.payload = <<>>

\* a frame list that leaves the message incomplete: no frame at all, frames
\* that add_frame ignores, or a First frame and Consecutive frames in
\* sequence whose data stays short of the declared length
LeavesIncomplete(list) ==
    \/ Len(list) = 0
    \/ AllHex(list) /\ \A i \in 1..Len(list) : FrameAt(list, i)[1] \div 16 >= 3
    \/ /\ FirstThenConsecutive(list)
       /\ Len(DataUpTo(list, Len(list))) < DeclaredLength(FrameAt(list, 1))

\* C6: get_payload returns the payload if and only if is_complete is true and
\* fails with ValueError otherwise; parse_isotp_frames fails likewise on a
\* list that leaves the message incomplete.
C6_PayloadIffComplete ==
    /\ last.op = "get_payload" =>
           IF message.is_complete
           THEN last.raised = "None" /\ last.value = message.payload
           ELSE last.raised = "ValueError"
    /\ (parsed.op = "parse_isotp_frames" /\ LeavesIncomplete(frame_data_list)) =>
           parsed.raised = "ValueError"

\* C6's case: get_payload failed on a message whose First frame declared more
\* than has arrived
C6_Witness ==
    /\ last.op = "get_payload"
    /\ last.raised = "ValueError"
    /\ message.expected_length # None
    /\ Len(message.payload) > 0
    /\ Len(message.payload) < message.expected_length

(***************************************************************************)
(* The claims about the UDS decoder (C7..C9).                              *)
(***************************************************************************)
\* parse_uds_response was applied and returned
Decoded == response.op = "parse_uds_response" /\ response.raised = "None"

\* C7: data_identifier is set if and only if payload[0] is one of 0x22, 0x62,
\* 0x2E, 0x6E, 0x2F, 0x6F; then it is (payload[1] << 8) | payload[2] and the
\* response payload is payload[3..]; otherwise the response payload is
\* payload[1..].
C7_DataIdentifier ==
    Decoded =>
        LET P == uds_payload
            r == response.value
        IN  /\ r.service_id = P[1]
            /\ r.data_identifier # None <=> P[1] \in {34, 98, 46, 110, 47, 111}
            /\ IF P[1] \in {34, 98, 46, 110, 47, 111}
               THEN /\ r.data_identifier = P[2] * 256 + P[3]
                    /\ r.payload = SubSeq(P, 4, Len(P))
                    /\ Len(r.payload) = Len(P) - 3
               ELSE /\ r.payload = SubSeq(P, 2, Len(P))
                    /\ Len(r.payload) = Len(P) - 1

\* C7's case: a response to service 0x2F with data identifier 0x0122 and one
\* byte of data was decoded
C7_Witness ==
    /\ Decoded
    /\ uds_payload = <<111, 1, 34, 127>>
    /\ response.value.data_identifier = 290
    /\ response.value.payload = <<127>>

\* service_id, the two big-endian bytes of data_identifier when it is
\* present, then the payload
Encode(r) ==
    <<r.service_id>>
    \o (IF r.data_identifier # None
        THEN <<r.data_identifier \div 256, r.data_identifier % 256>>
        ELSE <<>>)
    \o r.payload

\* C8: re-encoding the result of parse_uds_response reproduces the payload it
\* was given, byte for byte.
C8_RoundTrip == Decoded => Encode(response.value) = uds_payload

\* C8's case: a payload with a data identifier of two different bytes and
\* data after it was decoded
C8_Witness ==
    /\ Decoded
    /\ Len(uds_payload) = 4
    /\ response.value.data_identifier # None
    /\ uds_payload[2] # uds_payload[3]

\* C9: parse_uds_response fails, with ValueError, exactly on the empty payload
\* and on a payload of fewer than 3 bytes whose first byte is a service with a
\* data identifier; a Single frame of declared length 0 assembles to the empty
\* payload, which the decoder rejects.
C9_MalformedExactly ==
    /\ response.op = "parse_uds_response" =>
           /\ response.raised \in {"None", "ValueError"}
           /\ response.raised = "ValueError" <=>
                  \/ Len(uds_payload) = 0
                  \/ /\ uds_payload[1] \in {34, 98, 46, 110, 47, 111}
                     /\ Len(uds_payload) < 3
    /\ (/\ parsed.op = "parse_isotp_frames"
        /\ WellFormedSingle(frame_data_list)
        /\ FrameAt(frame_data_list, 1)[1] = 0) =>
           /\ parsed.raised = "None"
           /\ parsed.value = <<>>
           /\ response.op = "parse_uds_response" => response.raised = "ValueError"

\* C9's case: the Single frame 00 was assembled and its empty payload was
\* rejected by the decoder
C9_Witness ==
    /\ frame_data_list = <<<<"0", "0">>>>
    /\ parsed.op = "parse_isotp_frames"
    /\ response.op = "parse_uds_response"
    /\ uds_payload = <<>>
    /\ response.raised = "ValueError"

(***************************************************************************)
(* The claims about the controller (C10).                                  *)
(***************************************************************************)
\* C10: send_message is permitted only while the session is Ready: called
\* on a controller that has not initialized the adapter (Fresh) or that has
\* been closed (Closed), it ends in NotConnectedException and writes
\* nothing to the transport.
C10_SendMessageOnlyWhenReady ==
    /\ (main.op = "send_message" /\ session # "Ready") => main.writes = 0
    /\ (outcome.op = "send_message" /\ outcome.session # "Ready") =>
           /\ outcome.raised = "NotConnectedException"
           /\ outcome.writes = 0

(***************************************************************************)
(* The claims about the controller's requests (C11..C17).                  *)
(***************************************************************************)
\* the six lines of the configuration sequence, each with its CR
InitLines == {CommandLine(InitCommands[i]) : i \in 1..Len(InitCommands)}

\* the log begins with the six lines in order, each followed by the read
\* of its reply
InitDone ==
    /\ Len(wire) >= 2 * Len(InitCommands)
    /\ \A i \in 1..Len(InitCommands) :
        /\ wire[2 * i - 1].op = "write"
        /\ wire[2 * i - 1].data = CommandLine(InitCommands[i])
        /\ wire[2 * i].op = "read"
        /\ wire[2 * i].data = Scripts[transport.responses][InitCommands[i]]

\* a line that is not one of the six has been written
RequestStarted ==
    \E i \in 1..Len(wire) : wire[i].op = "write" /\ wire[i].data \notin InitLines

\* C11: whatever transport the controller is constructed with, the six
\* lines ATZ, ATE0, ATL0, ATS0, ATH1, ATSP0 are written in that order, each
\* with its CR and followed by a read of its reply, before any request line
\* is written, none of them is written a second time, and the session is
\* Ready by then.
C11_InitSequenceFirst ==
    /\ RequestStarted => InitDone /\ session # "Fresh"
    /\ \A i \in 1..Len(wire) :
           (wire[i].op = "write" /\ wire[i].data \in InitLines)
               => i <= 2 * Len(InitCommands)

\* the positions of the log at which send_message wrote a line
SentAt == {i \in 1..Len(wire) : wire[i].by = "send_message" /\ wire[i].op = "write"}

\* the last line send_message wrote: its request line once it has read the
\* reply and returned
RequestLine == wire[CHOOSE i \in SentAt : \A j \in SentAt : j <= i].data

\* send_message has written its request line, read and returned
Answered ==
    /\ main.pc = "idle"
    /\ outcome.op = "send_message"
    /\ outcome.writes > 0
    /\ outcome.raised # "NotConnectedException"

\* the adapter's reply to the request line
AdapterReply == MockReply(transport, Strip(RequestLine))

\* the reply holds one of the error or status tokens
HasErrorToken(text) ==
    \E keyword \in ErrorKeywords : Contains(text, keyword)

\* C12: whenever the adapter's reply to the request line holds one of the
\* tokens NO DATA, ERROR, ?, STOPPED, UNABLE TO CONNECT, BUS INIT, CAN ERROR,
\* BUFFER FULL, <DATA ERROR anywhere in it, send_message has failed with
\* NoResponseException and returned no decoded response, whatever else the
\* reply holds.
C12_ErrorTokenGivesNoResponse ==
    (Answered /\ HasErrorToken(AdapterReply))
        => outcome.raised = "NoResponseException"

\* the same for the replies that fit into one read of READ_SIZE characters
C12_ErrorTokenInOneRead ==
    (Answered /\ HasErrorToken(AdapterReply) /\ Len(AdapterReply) <= READ_SIZE)
        => outcome.raised = "NoResponseException"

\* a reply with a token and valid frames has been answered by
\* NoResponseException
C12_TokenAmongFrames ==
    /\ Answered
    /\ HasErrorToken(AdapterReply)
    /\ Contains(AdapterReply, <<"7", "E", "C", " ", "0", "3", " ", "6", "2">>)
    /\ Contains(AdapterReply, <<"S", "E", "A", "R", "C", "H", "I", "N", "G">>)
    /\ outcome.raised = "NoResponseException"

\* the positions of the log at which send_message read
ReadAt == {i \in 1..Len(wire) : wire[i].by = "send_message" /\ wire[i].op = "read"}

\* what the last read of send_message returned
RequestRead == wire[CHOOSE i \in ReadAt : \A j \in ReadAt : j <= i].data

\* every read of the log has returned the whole reply to the line written
\* just before it, and nothing else
ReadsMatchWrites ==
    \A i \in 1..Len(wire) :
        wire[i].op = "read" =>
            /\ i > 1
            /\ wire[i - 1].op = "write"
            /\ wire[i].data = MockReply(transport, Strip(wire[i - 1].data))

\* C13: when send_message has returned, nothing of the replies to its lines
\* is left unread in the transport, and every read has returned the reply to
\* the line written before it, to the prompt, whatever the length of the
\* reply.
C13_ReplyReadToPrompt ==
    Answered => (transport.read_buffer = <<>> /\ ReadsMatchWrites)

\* the same for the replies that fit into one read of READ_SIZE characters
C13_ShortReplyReadToPrompt ==
    (Answered /\ Len(AdapterReply) <= READ_SIZE)
        => (transport.read_buffer = <<>> /\ ReadsMatchWrites)

\* C14: when the read for the request line has returned no bytes, send_message
\* has failed with NoResponseException.
C14_SilenceGivesNoResponse ==
    (Answered /\ RequestRead = <<>>)
        => outcome.raised = "NoResponseException"

(***************************************************************************)
(* The claims about the decoding of the reply (C15..C17).                  *)
(***************************************************************************)
\* the text send_message works on: what its last read returned, decoded
\* and stripped
ResponseStr == Strip(DecodeAsciiIgnore(RequestRead))

\* the reply without the prompt and the informational tokens
Cleaned(text) == RemoveInformational(Remove(text, ">"), 1)

\* the line begins with 3 hexadecimal characters followed by at least 2 more
\* characters, blanks apart
IsFrameLine(line) ==
    LET l == Remove(Strip(line), " ")
    IN  Len(l) >= 5 /\ \A i \in 1..3 : IsHexChar(l[i])

\* the frame lines of the reply in reply order, the CAN id stripped
RECURSIVE FrameLines(_, _)
FrameLines(lines, i) ==
    IF i > Len(lines) THEN <<>>
    ELSE (IF IsFrameLine(lines[i])
          THEN <<From(Remove(Strip(lines[i]), " "), 3)>> ELSE <<>>)
         \o FrameLines(lines, i + 1)

\* the frames of a reply, by the words of the claims
FramesOf(text) == FrameLines(Split(Cleaned(text), "\r"), 1)

\* send_message has decoded a reply without error token
ReplyDecoded == Answered /\ ~HasErrorToken(ResponseStr)

\* the outcome of send_message is the result r
OutcomeIs(r) ==
    /\ outcome.raised = r.raised
    /\ r.raised = "None" => outcome.value = r.value

\* C15: whenever the frame lines of the reply cannot be reassembled,
\* send_message has failed with InvalidResponseException, and with no other
\* exception.
C15_ReassemblyFailureIsMalformed ==
    (ReplyDecoded /\ FramesOf(ResponseStr) # <<>>
        /\ ParseIsoTpFrames(FramesOf(ResponseStr)).raised # "None")
            => outcome.raised = "InvalidResponseException"

\* the same for the failures the reassembly reports as ValueError
C15_ValueErrorIsMalformed ==
    (ReplyDecoded /\ FramesOf(ResponseStr) # <<>>
        /\ ParseIsoTpFrames(FramesOf(ResponseStr)).raised = "ValueError")
            => outcome.raised = "InvalidResponseException"

\* the whole cleaned reply as one string of hexadecimal digits
WholeHex(text) ==
    FromHex(Remove(Remove(Remove(Cleaned(text), "\r"), "\n"), " "))

\* C16: whenever no line of the cleaned reply begins with 3 hexadecimal
\* characters followed by at least 2 more, send_message has decoded the bytes
\* of the whole cleaned reply as the raw payload when it is valid
\* hexadecimal text, and has failed with InvalidResponseException when it is
\* not; on this path InvalidResponseException is raised in no other case.
C16_WholeReplyFallback ==
    (ReplyDecoded /\ FramesOf(ResponseStr) = <<>>) =>
        IF WholeHex(ResponseStr).raised = "None"
        THEN OutcomeIs(ParseUdsResponse(WholeHex(ResponseStr).value))
        ELSE outcome.raised = "InvalidResponseException"

\* the same with the frames taken as _parse_response takes them
C16_FallbackWithoutFrames ==
    (ReplyDecoded
        /\ CollectFrames(ResponseLines(Cleaned(ResponseStr)), 1) = <<>>) =>
        IF WholeHex(ResponseStr).raised = "None"
        THEN OutcomeIs(ParseUdsResponse(WholeHex(ResponseStr).value))
        ELSE outcome.raised = "InvalidResponseException"

\* the frame lines of a well-formed message among the scripted lines
WellFormedLines ==
    {lines \in ReplyLines :
        /\ FramesOf(lines) # <<>>
        /\ Len(FramesOf(lines)) = Len(Split(lines, "\r")) - 1
        /\ WellFormedSingle(FramesOf(lines)) \/ WellFormedMulti(FramesOf(lines))}

\* decoding the frames alone
DecodeFrames(frames) ==
    LET payload == ParseIsoTpFrames(frames)
    IN  IF payload.raised # "None"
        THEN [raised |-> payload.raised, value |-> NoResponse]
        ELSE ParseUdsResponse(payload.value)

\* C17: on an initialized controller, a reply made of informational tokens
\* followed by the frame lines of a well-formed message and the prompt is
\* decoded to what the frames alone decode to; the mock's recorded reply to
\* 220102 gives service 0x62, data identifier 0x0102 and 36 bytes of payload.
C17_InformationalTokensIgnored ==
    Answered =>
        /\ \A info \in ReplyInfo : \A lines \in WellFormedLines :
               (outcome.session = "Ready"
                   /\ AdapterReply = info \o lines \o <<"\r", ">">>)
                   => OutcomeIs(DecodeFrames(FramesOf(lines)))
        /\ AdapterReply = Reply220102 =>
               /\ outcome.raised = "None"
               /\ outcome.value.service_id = 98
               /\ outcome.value.data_identifier = 258
               /\ Len(outcome.value.payload) = 36

\* the reply SEARCHING... and the frame lines of a well-formed message has
\* been decoded on an initialized controller
C17_Witness ==
    /\ Answered /\ outcome.session = "Ready"
    /\ \E lines \in WellFormedLines :
           AdapterReply = <<"S", "E", "A", "R", "C", "H", "I", "N", "G", ".",
                            ".", ".">> \o lines \o <<"\r", ">">>
    /\ outcome.raised = "None"
    /\ outcome.value.service_id = 98

\* the mock's recorded reply to 220102 has been decoded
C17_RecordedReplyDecoded ==
    /\ Answered
    /\ AdapterReply = Reply220102
    /\ Len(outcome.value.payload) = 36

(***************************************************************************)
(* The claims about the tester-present thread (C18..C20).                  *)
(***************************************************************************)
\* what one read returns of a reply that is alone in the buffer
OneRead(reply) == SubSeq(reply, 1, Min(Len(reply), READ_SIZE))

\* the result of send_message on its reply with no thread running
ResultAlone == DecodeReply(Strip(DecodeAsciiIgnore(OneRead(AdapterReply))))

\* C18: with the tester-present thread running, send_message has returned
\* what it returns on the reply to its request line with no thread running,
\* and its read has returned that reply.
C18_TickerLeavesResultAlone ==
    Answered =>
        /\ OutcomeIs(ResultAlone)
        /\ RequestRead = OneRead(AdapterReply)

\* the same, as long as the thread has written and read nothing
C18_ResultAloneWithoutWorkerRead ==
    (Answered /\ \A i \in 1..Len(wire) : wire[i].by # "worker")
        => (OutcomeIs(ResultAlone) /\ RequestRead = OneRead(AdapterReply))

\* C19: the tester-present thread only writes the line 3E00 and a carriage
\* return; it performs no read on the transport.
C19_TickerWritesOnly ==
    \A i \in 1..Len(wire) :
        wire[i].by = "worker" =>
            /\ wire[i].op = "write"
            /\ wire[i].data = <<"3", "E", "0", "0", "\r">>

\* every line the thread writes is 3E00 and a carriage return
C19_TickerWrites3E00 ==
    \A i \in 1..Len(wire) :
        (wire[i].by = "worker" /\ wire[i].op = "write")
            => wire[i].data = <<"3", "E", "0", "0", "\r">>

\* the threads that have started and not ended
Alive == {w \in Workers : workers[w] \notin {"unborn", "dead"}}

\* C20: at most one tester-present thread is alive at any time.
C20_AtMostOneWorker == Cardinality(Alive) <= 1

\* enable_cyclic_tester_present called while the thread runs starts no
\* thread and changes neither the interval nor the handle
C20_EnableWhileRunning ==
    [][(EnableCyclicTesterPresent /\ elm.tester_present_running)
           => (elm' = elm /\ workers' = workers)]_vars

\* at most one thread is alive as long as no join has given up
C20_AtMostOneWorkerOnMock ==
    transport.kind = "mock" => Cardinality(Alive) <= 1

(***************************************************************************)
(* The claims about the end of the tester-present thread and about failed  *)
(* requests (C21..C23).                                                    *)
(***************************************************************************)
\* disable_tester_present has returned and no call has followed it
DisableReturned == main.pc = "idle" /\ outcome.op = "disable_tester_present"

\* the controller reports the thread as inactive
ReportsInactive ==
    /\ ~elm.tester_present_running
    /\ elm.tester_present_thread = None

\* the step appends the thread's line 3E00 and a carriage return to the log
WritesTesterPresent ==
    wire' = Append(wire, Write("worker", <<"3", "E", "0", "0", "\r">>))

\* the thread w leaves the head of its loop body
LeavesLoopHead(w) == workers[w] = "write" /\ workers'[w] # "write"

PastDisable ==
    \/ DisableReturned
    \/ main.pc \in {"close_connection", "release_connection"}
    \/ main.pc = "idle" /\ outcome.op = "close" /\ ~elm.tester_present_running

\* C22: once disable_tester_present has returned, and from the moment close()
\* turns to the transport, the tester-present thread has ended.
C22_WorkerEndedBeforeReturn == PastDisable => Alive = {}

\* the same on a transport whose read does not block
C22_WorkerEndedOnMock ==
    (PastDisable /\ transport.kind = "mock") => Alive = {}

\* no thread writes or reads once close() has turned to the transport
C22_NoTickAfterClose ==
    [][main.pc \in {"close_connection", "release_connection"}
           => UNCHANGED wire]_vars

\* the step on which send_message returns from the read of its request line
RequestReturns == main.pc = "request_read" /\ main'.pc = "idle"

\* the exceptions of a request that has been written and has failed
Failures ==
    {"NoResponseException", "InvalidResponseException", "ValueError",
     "IndexError"}

\* send_message has failed after its write and no call has followed it
RequestFailed ==
    /\ main.pc = "idle"
    /\ outcome.op = "send_message"
    /\ outcome.raised \in Failures

\* C23: a send_message that fails has written its request line once, after
\* the one ATSH line if a CAN id is given, and leaves the controller as it
\* was: the same connection, flag, interval and thread, the same session
\* and an open transport, so that the next send_message is accepted and
\* writes.
C23_FailureKeepsSession ==
    /\ [][(RequestReturns /\ outcome'.raised \in Failures) =>
             /\ main.writes = (IF main.can_id # None THEN 2 ELSE 1)
             /\ elm' = elm
             /\ session' = session
             /\ workers' = workers
             /\ transport'.is_open = transport.is_open
             /\ transport'.kind = transport.kind]_vars
    /\ [](RequestFailed => ~NoConnection(elm))
    /\ [][(RequestFailed /\ main'.op = "send_message")
             => main'.pc \in {"header_write", "request_write"}]_vars

\* the request 010D has failed twice, each call with a write of its own
C23_Witness ==
    /\ RequestFailed
    /\ outcome.raised = "NoResponseException"
    /\ \E i, j \in SentAt :
           /\ i < j
           /\ wire[i].data = <<"0", "1", "0", "D", "\r">>
           /\ wire[j].data = <<"0", "1", "0", "D", "\r">>

(***************************************************************************)
(* The claims about the BLE receive buffer (C24..C26).                     *)
(***************************************************************************)
\* the bytes of the entries of rx.left
Bytes(left) == [i \in 1..Len(left) |-> left[i].byte]

\* the bytes that left the buffer in the way how, in the order they left
LeftHow(how) ==
    Bytes(SelectSeq(rx.left, LAMBDA entry : entry.how = how))

\* C24: whatever the interleaving of notifications with read, read_until and
\* flush_input, the bytes that left the buffer, in the order they left it
\* (each returned by a read or discarded by flush_input), followed by the
\* buffer are the notified bytes in the order they arrived: no byte is lost,
\* duplicated or reordered.
C24_StreamKept == Bytes(rx.left) \o ble.read_buffer = rx.arrived

\* the whole stream has arrived; part of it was returned by read_until,
\* part discarded, part is still buffered
C24_Witness ==
    /\ rx.arrived = Stream
    /\ io.op = "read_until" /\ io.raised = "None"
    /\ LeftHow("returned") # <<>>
    /\ LeftHow("discarded") # <<>>
    /\ ble.read_buffer # <<>>

\* the thread that changes the buffer in this step
Mutator ==
    IF \E l \in Loops : loops[l].handling /\ ~loops'[l].handling
    THEN "handler" ELSE "caller"

\* the buffer's content changes
BufferMutated == ble'.read_buffer # ble.read_buffer

\* the caller is between the check and the removal of a read or read_until:
\* it holds the lock and the buffer is what it checked
InOneSection ==
    caller.pc = "store" =>
        /\ ble.buffer_lock = "caller"
        /\ caller.data \o caller.rest = ble.read_buffer

\* the handler is not in its with block while the caller is in one
OneInSection ==
    \A l \in Loops :
        loops[l].handling =>
            /\ ble.buffer_lock = "handler"
            /\ caller.pc \notin {"locked", "store"}

\* flush_input returns
FlushReturns == caller.op = "flush_input" /\ caller.pc = "locked" /\ caller'.pc = "idle"

\* C25: the receive buffer changes only in a step of the thread that holds
\* the buffer mutex (the handler's append, the removal by read and
\* read_until, the clearing by flush_input); from a reader's check to its
\* removal the reader holds the mutex and the buffer stays as checked;
\* flush_input empties the buffer in one step, during which no notification
\* is half appended, and the handler appends a whole payload in one step.
C25_MutationsUnderMutex ==
    /\ [](InOneSection /\ OneInSection)
    /\ [][BufferMutated => ble.buffer_lock = Mutator]_vars
    /\ [][FlushReturns => ble'.read_buffer = <<>>]_vars
    /\ [][\A l \in Loops :
              (loops[l].handling /\ ~loops'[l].handling) =>
                  ble'.read_buffer = ble.read_buffer \o loops[l].handler]_vars

\* flush_input holds the mutex over a buffer that is not empty while the
\* adapter has more to notify
C25_Witness ==
    /\ caller.op = "flush_input" /\ caller.pc = "locked"
    /\ ble.read_buffer # <<>>
    /\ gatt.notifying
    /\ Len(rx.arrived) < Len(Stream)

\* read_until returns its data
ReadUntilReturns ==
    /\ caller.op = "read_until" /\ caller.pc = "store"
    /\ caller'.pc = "idle"

\* the terminator stands at the end of the data and nowhere before
EndsAtFirst(data, terminator) ==
    /\ Len(data) >= Len(terminator)
    /\ \A i \in 1..(Len(data) - Len(terminator) + 1) :
           SubSeq(data, i, i + Len(terminator) - 1) = terminator
               <=> i = Len(data) - Len(terminator) + 1

\* C26: read_until(terminator) on the BLEConnection returns the buffered
\* bytes up to and including the first occurrence of the terminator and
\* leaves the bytes after it in the buffer, in order; a call that found no
\* terminator at first and waited for a later notification does the same.
C26_PrefixThroughTerminator ==
    [][ReadUntilReturns =>
          /\ io'.raised = "None"
          /\ EndsAtFirst(io'.result, caller.terminator)
          /\ io'.result \o ble'.read_buffer = ble.read_buffer]_vars

\* read_until(b'>') has waited for the notification that brought '>', has
\* returned A> and has left the later bytes, a second '>' among them
C26_Witness ==
    /\ io.op = "read_until" /\ io.raised = "None"
    /\ io.waited
    /\ io.result = <<"A", ">">>
    /\ ble.read_buffer = <<"\r", ">">>

(***************************************************************************)
(* The claims about read and read_until of the transports (C27, C28).      *)
(***************************************************************************)
\* read on the BLEConnection makes its check under the lock
ReadChecks == caller.op = "read" /\ caller.pc = "locked"

\* C27: read(n) returns between 1 and n bytes as soon as at least one byte
\* is buffered: a check of BLEConnection.read that finds a byte in the
\* buffer goes on to return, and what a read returns is never empty.
C27_ReadAsSoonAsBuffered ==
    /\ [][(ReadChecks /\ ble.read_buffer # <<>>) => caller'.pc = "store"]_vars
    /\ [](io.op = "read" /\ io.raised = "None" => io.result # <<>>)

\* C27 on the MockConnection: what read returns is never empty.
C27_MockReadNeverEmpty == io.op = "mock_read" => io.result # <<>>

\* C27, as far as it holds on the BLEConnection: read(n) returns n bytes,
\* the first n of the buffer, or raises; it never returns fewer.
C27_BleReadAllOrTimeout ==
    [][(caller.op = "read" /\ caller'.pc = "idle") =>
          \/ /\ io'.raised = "None"
             /\ Len(io'.result) = caller.size
             /\ io'.result \o ble'.read_buffer = ble.read_buffer
          \/ /\ io'.raised = "ConnectionTimeoutError"
             /\ io'.result = <<>>
             /\ ble' = ble]_vars

\* C28: read_until returns bytes that end with the terminator or fails with
\* the timeout error: what MockConnection.read_until returns is not empty
\* and ends with one of the terminators it can be called with.
C28_MockReadUntilEndsWithTerminator ==
    io.op = "mock_read_until" =>
        \E terminator \in MockTerminators :
            /\ Len(io.result) >= Len(terminator)
            /\ From(io.result, Len(io.result) - Len(terminator)) = terminator

\* C28, as far as it holds: BLEConnection.read_until returns bytes that end
\* with the terminator or raises ConnectionTimeoutError, and raises only
\* after a check that found no terminator in the buffer.
C28_BleReadUntilEndsWithTerminator ==
    [][(caller.op = "read_until" /\ caller'.pc = "idle") =>
          \/ /\ io'.raised = "None"
             /\ EndsAtFirst(io'.result, caller.terminator)
          \/ /\ io'.raised = "ConnectionTimeoutError"
             /\ io'.result = <<>>
             /\ caller.pc = "deadline"
             /\ ble' = ble]_vars

(***************************************************************************)
(* The claims about open and close of the BLEConnection (C29, C30).        *)
(***************************************************************************)
\* the caller calls op in this step
Calls(op) ==
    /\ caller.pc = "idle"
    /\ \/ caller'.op = op
       \/ io'.op = op /\ io' # io

\* the call made in this step returns in it, raises nothing, and leaves the
\* connection, its buffer, its threads and the link as they are
NoOp ==
    /\ caller' = NoBleCall
    /\ io'.raised = "None"
    /\ UNCHANGED <<ble, gatt, loops, rx>>

\* C29: open() on a BLEConnection whose _is_open is set and close() on one
\* whose _is_open is clear return at once: nothing is scheduled on the
\* event loop, no thread is started, nothing is raised, and _is_open, the
\* receive buffer and the link stay as they are.
C29_RepeatedOpenCloseNoOp ==
    /\ [][(Calls("open") /\ ble.is_open) => NoOp]_vars
    /\ [][(Calls("close") /\ ~ble.is_open) => NoOp]_vars

\* open() has returned on the connection that was opened once, has been
\* read from since and holds bytes
C29_Witness ==
    /\ io.op = "open" /\ io.raised = "None"
    /\ ble.is_open
    /\ \A l \in Loops : l # 1 => loops[l].thread = "unborn"
    /\ rx.left # <<>>
    /\ ble.read_buffer # <<>>

\* open() has raised and no call has been made since
OpenFailed ==
    /\ caller.pc = "idle"
    /\ io.op = "open" /\ io.raised = "ConnectionError"

\* no GATT client is held or connected
NoClient == ble.client = "None" /\ ~gatt.is_connected /\ ~gatt.notifying

\* no event-loop thread is alive
NoWorker == \A l \in Loops : ~IsAlive(l)

\* C30: after open() has failed, at connect, at the discovery, at
\* start_notify or by the timeout of future.result, and until the next call,
\* _is_open is false, no GATT client is held or connected, and no
\* event-loop thread is running.
C30_FailedOpenReleased ==
    OpenFailed => ~ble.is_open /\ NoClient /\ NoWorker

\* C30 without the thread: after open() has failed _is_open is false and no
\* GATT client is held or connected.
C30_FailedOpenNotOpen == OpenFailed => ~ble.is_open /\ NoClient

\* C30, as far as it holds: when open() raises what _open_async raised,
\* _is_open is false and no GATT client is held or connected; and a close()
\* called after a failed open returns without raising.
C30_FailureInCoroutineReleasesLink ==
    /\ [][(/\ caller.op = "open" /\ caller.pc = "result"
            /\ loops[caller.future].task.result = "ConnectionError"
            /\ caller'.pc = "idle") =>
              /\ io'.raised = "ConnectionError"
              /\ ~ble'.is_open
              /\ ble'.client = "None"
              /\ ~gatt'.is_connected /\ ~gatt'.notifying]_vars
    /\ [](io.op = "close" => io.raised = "None")

(***************************************************************************)
(* The claim about the MockConnection's writes (C31).                      *)
(***************************************************************************)
\* the reply the mapping of MockConnection.__init__ holds for a command,
\* '?\r\r>' for a command it does not hold
ScriptedReply(command) ==
    IF command \in DOMAIN Responses THEN Responses[command] ELSE ReplyUnknown

\* the number of writes of the command so far
WritesOf(command) ==
    Cardinality({i \in 1..Len(wire) : Strip(wire[i].data) = command})

\* the replies to the writes of a log, one after the other
RECURSIVE RepliesTo(_)
RepliesTo(log) ==
    IF log = <<>> THEN <<>>
    ELSE ScriptedReply(Strip(Head(log).data)) \o RepliesTo(Tail(log))

\* the command written in this step
Written == Strip(wire'[Len(wire')].data)

\* C31: each write on the MockConnection appends the scripted reply of its
\* command ('?\r\r>' for a command not in the mapping) to the end of the
\* receive buffer and adds one to the command's count and to no other;
\* call_count[c] is the number of writes of c so far; and the bytes that
\* left the buffer (returned by read and read_until, or discarded by
\* flush_input and close) followed by the buffer are the replies to the
\* writes in write order.
C31_WriteQueuesReplyAndCounts ==
    /\ [](/\ \A c \in DOMAIN transport.call_count :
                 transport.call_count[c] = WritesOf(c)
          /\ \A i \in 1..Len(wire) :
                 Strip(wire[i].data) \in DOMAIN transport.call_count
          /\ Bytes(rx.left) \o transport.read_buffer = RepliesTo(wire))
    /\ [][wire' # wire =>
             /\ transport'.read_buffer =
                    transport.read_buffer \o ScriptedReply(Written)
             /\ transport'.call_count[Written] =
                    (IF Written \in DOMAIN transport.call_count
                     THEN transport.call_count[Written] ELSE 0) + 1
             /\ \A c \in DOMAIN transport.call_count :
                    c # Written =>
                        transport'.call_count[c] = transport.call_count[c]]_vars

\* 0100, which is not in the mapping, was written twice; read_until has
\* returned the first '?\r\r>' and the second is in the buffer
C31_Witness ==
    /\ <<"0", "1", "0", "0">> \in DOMAIN transport.call_count
    /\ transport.call_count[<<"0", "1", "0", "0">>] = 2
    /\ io.op = "mock_read_until" /\ io.result = ReplyUnknown
    /\ transport.read_buffer = ReplyUnknown

(***************************************************************************)
(* The claims about the end of the assembly and about rejected frames      *)
(* (C32, C33).                                                             *)
(***************************************************************************)
\* add_frame was called in this step: the frame was constructed
AddFrameCalled == last'.op = "add_frame" /\ last'.raised # "IndexError"

\* a well-formed message, Single or First with Consecutive frames, is
\* followed in the list by at least one more frame
ExtraFrameAfterComplete(list) ==
    \E k \in 1..(Len(list) - 1) :
        \/ WellFormedSingle(SubSeq(list, 1, k))
        \/ WellFormedMulti(SubSeq(list, 1, k))

\* C32: once is_complete is true every add_frame call, whatever the type of
\* the frame, fails with ValueError and leaves payload, expected_length,
\* next_sequence and is_complete as they were; parse_isotp_frames on a list
\* with a frame after the one that completed the message fails.
C32_OneShot ==
    /\ [][(AddFrameCalled /\ message.is_complete) =>
              /\ last'.raised = "ValueError"
              /\ message' = message]_vars
    /\ []((parsed.op = "parse_isotp_frames"
             /\ ExtraFrameAfterComplete(frame_data_list)) =>
               parsed.raised # "None")

\* a flow control frame, which add_frame otherwise ignores, was rejected on
\* a complete message
C32_Witness ==
    /\ last.op = "add_frame"
    /\ last.frame_type = FLOW_CONTROL_FRAME
    /\ last.raised = "ValueError"
    /\ message.is_complete
    /\ Len(message.payload) > 0

\* the last call was add_frame on a Consecutive frame that was rejected for
\* its sequence number, on a message a First frame has started
OutOfSequenceRejected ==
    /\ last.op = "add_frame"
    /\ last.frame_type = CONSECUTIVE_FRAME
    /\ last.raised = "ValueError"
    /\ last.sequence_number # message.next_sequence
    /\ message.expected_length # None
    /\ ~message.is_complete

\* C33: an add_frame call that fails leaves payload, expected_length,
\* next_sequence and is_complete as they were before the call; after a
\* Consecutive frame was rejected for its sequence number the frame with the
\* expected number is accepted and its data appended.
C33_FailedAddFrameChangesNothing ==
    /\ [][(AddFrameCalled /\ last'.raised # "None") => message' = message]_vars
    /\ [][(/\ OutOfSequenceRejected
            /\ Offered(CONSECUTIVE_FRAME)
            /\ AddFrameCalled
            /\ last'.sequence_number = message.next_sequence) =>
              /\ last'.raised = "None"
              /\ message'.next_sequence = (message.next_sequence + 1) % 16
              /\ \E data \in DataFields :
                     \/ message'.payload = message.payload \o data
                     \/ /\ message'.is_complete
                        /\ message'.payload =
                               Slice(message.payload \o data, 0,
                                     message.expected_length)]_vars

\* a Consecutive frame numbered otherwise than expected was rejected on a
\* message that holds the data of its First frame
C33_Witness ==
    /\ OutOfSequenceRejected
    /\ message.payload # <<>>
    /\ message.next_sequence = 2

(***************************************************************************)
(* The claims about the lines of a request (C34, C35).                     *)
(***************************************************************************)
\* the k-th hexadecimal digit of n from the right, counted from 0
DigitAt(n, k) == HexDigits[((n \div (16 ^ k)) % 16) + 1]

\* n as exactly two and exactly three upper-case hexadecimal digits
TwoHex(n) == <<DigitAt(n, 1), DigitAt(n, 0)>>
ThreeHex(n) == <<DigitAt(n, 2), DigitAt(n, 1), DigitAt(n, 0)>>

\* the value of a text of upper-case hexadecimal digits
RECURSIVE ValueOfHex(_)
ValueOfHex(digits) ==
    IF digits = <<>> THEN 0
    ELSE 16 * ValueOfHex(SubSeq(digits, 1, Len(digits) - 1))
         + HexValue(digits[Len(digits)])

\* the text is n in upper-case hexadecimal digits, padded with zeros to
\* the width and no further
PaddedHex(digits, n, width) ==
    /\ Len(digits) >= width
    /\ \A i \in 1..Len(digits) : \E k \in 1..16 : HexDigits[k] = digits[i]
    /\ ValueOfHex(digits) = n
    /\ Len(digits) > width => digits[1] # "0"

\* send_message writes a line in this step; the line
CallerWrites ==
    /\ main.pc \in {"header_write", "request_write"}
    /\ main'.pc \notin {"idle", main.pc}
LineWritten == wire'[Len(wire')].data

\* send_message reads the reply to its header line in this step
CallerReadsHeaderReply == main.pc = "header_read" /\ main'.pc # "header_read"

\* the order of the steps of send_message, whatever the digits of the lines:
\* with a can_id the header line is the first write of the call, a read of
\* the caller follows it and then the request line; without a can_id the
\* request line is the first write; every line ends with CR
HeaderReadRequest ==
    /\ [][(main.pc = "idle" /\ main'.op = "send_message") =>
              main'.pc = (IF main'.can_id # None THEN "header_write"
                          ELSE "request_write")]_vars
    /\ [][CallerWrites =>
              /\ wire' = Append(wire, Write("send_message", LineWritten))
              /\ LineWritten[Len(LineWritten)] = "\r"
              /\ IF main.pc = "header_write"
                 THEN /\ main.can_id # None /\ main.writes = 0
                      /\ main'.pc = "header_read"
                 ELSE /\ main.writes = (IF main.can_id # None THEN 1 ELSE 0)
                      /\ main'.pc = "request_read"]_vars
    /\ [][CallerReadsHeaderReply =>
              /\ Len(wire') = Len(wire) + 1
              /\ SubSeq(wire', 1, Len(wire)) = wire
              /\ wire'[Len(wire')].by = "send_message"
              /\ wire'[Len(wire')].op = "read"
              /\ main'.pc = "request_write"]_vars

WritesUdsRequest ==
    CallerWrites /\ main.pc = "request_write" /\ main.can_id # None
RequestDigits == SubSeq(LineWritten, 1, Len(LineWritten) - 1)

\* C35: the request line of a UDS request is the request code in upper-case
\* hexadecimal digits without separators, in whole bytes: an even number of
\* digits, also for a code whose first nibble is zero.
C35_RequestInWholeBytes ==
    [][WritesUdsRequest =>
          /\ \A i \in 1..Len(RequestDigits) :
                 \E k \in 1..16 : HexDigits[k] = RequestDigits[i]
          /\ ValueOfHex(RequestDigits) = main.pid
          /\ Len(RequestDigits) % 2 = 0]_vars

\* C35, as far as it holds: the request line is the request code in
\* upper-case hexadecimal digits without separators, padded with zeros to
\* two digits and no further.
C35_RequestHexOfCode ==
    [][WritesUdsRequest => PaddedHex(RequestDigits, main.pid, 2)]_vars

(***************************************************************************)
(* The claim about the errors of the tester-present thread (C36).          *)
(***************************************************************************)
\* the step of thread w in which its _send_command raises
TickFails(w) ==
    /\ TickRaises
    /\ workers[w] \in {"write", "read"}
    /\ workers'[w] # workers[w]

\* thread w leaves its time.sleep
Wakes(w) == workers[w] = "sleep" /\ workers'[w] # "sleep"

\* thread w ends
ThreadEnds(w) == workers[w] # "dead" /\ workers'[w] = "dead"

\* C36: an exception of _send_command inside the tester-present thread stays
\* inside it: the thread goes to its sleep, and the flag, the controller, the
\* session, the caller and what the caller was given are as before; after
\* its sleep the thread sends again while the flag is set, and a thread ends
\* at its loop test with the flag cleared, never elsewhere.
C36_TickerSwallowsErrors ==
    /\ [][\A w \in Workers :
             TickFails(w) =>
                 /\ workers'[w] = "sleep"
                 /\ elm' = elm
                 /\ session' = session
                 /\ main' = main
                 /\ outcome' = outcome
                 /\ wire' = wire]_vars
    /\ [][\A w \in Workers :
             Wakes(w) =>
                 workers'[w] = (IF elm.tester_present_running
                                THEN "write" ELSE "dead")]_vars
    /\ [][\A w \in Workers :
             ThreadEnds(w) =>
                 /\ workers[w] \in {"test", "sleep"}
                 /\ ~elm.tester_present_running]_vars

\* a thread started on a closed controller sleeps after a _send_command that
\* has raised, with the flag set and nothing written
C36_Witness ==
    /\ session = "Closed"
    /\ elm.serial_connection = "None"
    /\ elm.tester_present_running
    /\ \E w \in Workers : workers[w] = "sleep"
    /\ \A i \in 1..Len(wire) : wire[i].by # "worker"

(***************************************************************************)
(* The claim about the receive buffer after a failed BLE call (C37).       *)
(***************************************************************************)
\* the call of op ends in this step
BleCallEnds(op) ==
    /\ caller'.pc = "idle"
    /\ \/ caller.pc = "idle" /\ io'.op = op /\ io' # io
       \/ caller.pc # "idle" /\ caller.op = op

\* the exceptions of a call that is rejected or runs out of time
BleFailures == {"ConnectionException", "ConnectionTimeoutError"}

\* the n first bytes of the buffer leave it in this step, in their order
TakenFromFront(n) ==
    /\ ble'.read_buffer = From(ble.read_buffer, n)
    /\ \E how \in {"returned", "discarded"} :
           /\ rx'.left = rx.left \o LeftBy(how, SubSeq(ble.read_buffer, 1, n))
           /\ how = "discarded" => caller.op = "flush_input"

\* C37: a read, read_until or write of the BLEConnection that raises, being
\* rejected on a connection that is not open or having run out of time,
\* leaves the receive buffer and the bytes delivered so far as they were;
\* and bytes leave the buffer only from its front, in their order, returned
\* by a read or read_until or discarded by flush_input.
C37_FailedCallKeepsBuffer ==
    /\ [][\A op \in {"read", "read_until", "write"} :
             (BleCallEnds(op) /\ io'.raised \in BleFailures) =>
                 /\ ble'.read_buffer = ble.read_buffer
                 /\ rx' = rx]_vars
    /\ [][ble'.read_buffer # ble.read_buffer =>
             \/ /\ Len(ble'.read_buffer) > Len(ble.read_buffer)
                /\ SubSeq(ble'.read_buffer, 1, Len(ble.read_buffer))
                       = ble.read_buffer
                /\ rx'.left = rx.left
             \/ \E n \in 1..Len(ble.read_buffer) : TakenFromFront(n)]_vars

\* a read or read_until has run out of time with bytes in the buffer
C37_Witness ==
    /\ caller.pc = "idle"
    /\ io.op \in {"read", "read_until"}
    /\ io.raised = "ConnectionTimeoutError"
    /\ ble.read_buffer # <<>>

(***************************************************************************)
(* The claim about open() after close() on the BLEConnection (C38).        *)
(***************************************************************************)
\* a close() has told an event loop to stop
LoopStopSent == \E l \in Loops : loops[l].stop

\* open() is in _run_coroutine, past _ensure_event_loop, on a connection
\* that close() has returned on
ReopenDispatches ==
    /\ caller.pc = "dispatch"
    /\ caller.op = "open"
    /\ LoopStopSent

\* _event_loop is a loop that runs and has not been told to stop
HasRunningLoop ==
    /\ ble.event_loop # None
    /\ loops[ble.event_loop].thread = "running"
    /\ ~loops[ble.event_loop].stop

\* C38: when an open() that follows a close() comes to dispatch its
\* coroutine, _event_loop is a running loop that has not been told to stop,
\* so that _run_coroutine does not raise 'Event loop not initialized'; and
\* at most one event-loop thread is alive.
C38_ReopenFindsRunningLoop ==
    /\ ReopenDispatches => HasRunningLoop
    /\ Cardinality({l \in Loops : IsAlive(l)}) <= 1

\* at most one event-loop thread is alive
C38_OneLoopThread == Cardinality({l \in Loops : IsAlive(l)}) <= 1

\* the coroutine of an open() or close() is never scheduled on a loop that
\* has been told to stop or has ended
C38_NoDispatchToStoppedLoop ==
    [][(caller.pc = "dispatch" /\ caller'.pc = "result") =>
          /\ loops[caller'.future].thread = "running"
          /\ ~loops[caller'.future].stop]_vars

(***************************************************************************)
(* The claim about the retries of KiaNiroEV._read_bms_data (C39).          *)
(***************************************************************************)
\* the request lines of _read_bms_data written so far
KiaRequestWrites ==
    Cardinality({i \in 1..Len(wire) :
                    /\ wire[i].op = "write"
                    /\ \E pid \in KiaPids :
                           wire[i].data = CommandLine(MessageCommand(
                               BMS_REQUEST_ID, READ_DATA_BY_ID * 65536 + pid))})

\* _read_bms_data comes to send_message in this step
AttemptBegins == kia.pc = "attempt" /\ kia'.pc = "send_message"

\* send_message has returned to _read_bms_data, which goes on in this step
AttemptEnds == kia.pc = "send_message" /\ kia'.pc # "send_message"

\* _read_bms_data has returned or raised
KiaReadEnded == kia.pc = "idle" /\ kia.pid # None

\* at most five attempts are made for one read; a successful attempt ends
\* the read with its payload; the fifth failure is raised, an earlier one
\* is followed by the sleep; a read ends with the payload or the exception
\* of its last attempt
C39_BoundedRetries ==
    /\ [](kia.attempt <= READ_RETRIES)
    /\ [](KiaRequestWrites <= READ_RETRIES * kia.reads)
    /\ [][AttemptEnds =>
             IF outcome.raised = "None"
             THEN /\ kia'.pc = "idle"
                  /\ kia'.raised = "None"
                  /\ kia'.payload = outcome.value.payload
             ELSE IF kia.attempt = READ_RETRIES
             THEN /\ kia'.pc = "idle"
                  /\ kia'.raised = outcome.raised
             ELSE /\ kia'.pc = "backoff"
                  /\ kia'.attempt = kia.attempt]_vars
    /\ [](KiaReadEnded =>
             IF outcome.raised = "None"
             THEN kia.raised = "None" /\ kia.payload = outcome.value.payload
             ELSE kia.raised = outcome.raised /\ kia.attempt = READ_RETRIES)

\* every attempt but the first begins with a flush of the transport's input
FlushBeforeRetry ==
    [][AttemptBegins =>
          IF kia.attempt > 1
          THEN /\ wire' = Append(wire, Flush("kia"))
               /\ transport'.read_buffer = <<>>
          ELSE wire' = wire]_vars

\* C39: _read_bms_data makes at most 5 attempts for one read, returns the
\* payload of the first attempt that succeeds and makes no further one,
\* flushes the transport's input before every attempt but the first, and
\* raises the exception of the fifth attempt when all five fail; it ends
\* with a payload or an exception.
C39_BoundedRetriesWithFlush == C39_BoundedRetries /\ FlushBeforeRetry

\* no flush_input is ever called on the transport
C39_NeverFlushes == \A i \in 1..Len(wire) : wire[i].op # "flush_input"

(***************************************************************************)
(* The claim about the polling loop of the publisher (C40).                *)
(***************************************************************************)
\* the positions of run() inside _reconnect_vehicle
Reconnecting == {"reconnect", "reconnect_try", "reconnect_sleep"}

\* get_soc() returns in this step
ReadSucceeds == publisher.pc = "read" /\ publisher'.pc = "publish"

\* get_soc() raises in this step
ReadFails == publisher.pc = "read" /\ publisher'.pc \notin {"read", "publish"}

\* the iteration whose get_soc() has returned goes on to its sleep or to the
\* reconnection
ReadingEnds == publisher.pc = "publish" /\ publisher'.pc # "publish"

\* _reconnect_vehicle returns in this step
ReconnectEnds ==
    publisher.pc \in Reconnecting /\ publisher'.pc \notin Reconnecting

\* a failed reading is counted; at 3 the controller is closed and the
\* connection attempted until it is made or the publisher is shut down,
\* and the counter is 0 again; the counter never exceeds 3
ErrorsCounted ==
    /\ [][ReadFails =>
             publisher'.consecutive_errors
                 = publisher.consecutive_errors + 1]_vars
    /\ [](publisher.consecutive_errors <= MAX_CONSECUTIVE_ERRORS)
    /\ [](publisher.consecutive_errors = MAX_CONSECUTIVE_ERRORS
              => publisher.pc \in Reconnecting)
    /\ [][(publisher.pc = "reconnect" /\ publisher'.pc # "reconnect")
              => publisher'.elm = "None"]_vars
    /\ [][ReconnectEnds =>
             /\ publisher'.consecutive_errors = 0
             /\ publisher'.elm # "None" \/ ~publisher.running]_vars

\* last_soc and last_update_time change only as get_soc() returns, a
\* publish is made only in an iteration whose get_soc() has returned, and
\* a reading begins only at a test that finds the polling enabled
OnlyAfterSuccess ==
    /\ [][(\/ publisher'.last_soc # publisher.last_soc
           \/ publisher'.last_update_time # publisher.last_update_time)
              => ReadSucceeds]_vars
    /\ [][publisher'.published # publisher.published => ReadingEnds]_vars
    /\ [][(publisher'.pc = "read" /\ publisher.pc # "read")
              => publisher.polling_enabled]_vars

\* C40: in the polling loop every reading that succeeds resets the counter
\* of consecutive errors to 0 and every reading that fails adds 1 to it; at
\* 3 the vehicle connection is closed and made again, with attempts until
\* it is made or the publisher is shut down, and the counter is 0 again, so
\* it never exceeds 3; last_soc and last_update_time change, and a publish
\* is made, only after a reading that succeeded, and a reading is
\* attempted only while the trigger enables the polling.
C40_PollingLoop ==
    /\ [][ReadingEnds => publisher'.consecutive_errors = 0]_vars
    /\ ErrorsCounted
    /\ OnlyAfterSuccess

\* the same, the counter being reset by a reading that succeeds and is
\* published without an exception
C40_PollingLoopPublished ==
    /\ [][(ReadingEnds /\ publisher.qos_valid)
              => publisher'.consecutive_errors = 0]_vars
    /\ ErrorsCounted
    /\ OnlyAfterSuccess

\* a reading has succeeded and the counter of consecutive errors is not 0
C40_CountedAfterSuccess ==
    ~(/\ publisher.last_update_time = publisher.reads
      /\ publisher.pc = "sleep"
      /\ publisher.consecutive_errors > 0)

=============================================================================
